---- MODULE Spec2Model ----
(***************************************************************************)
(* Model of the telegram-analytics-platform core:                          *)
(*   - the in-memory job registry of services/memory_manager.py            *)
(*     (task_memory, memory_ttl, memory_lock) and its reclaim pass,        *)
(*   - the scrape gate PARSER_LOCK of routers/reports.py and the scraping  *)
(*     endpoints of routers/parser.py.                                     *)
(* Time is counted in whole seconds.                                       *)
(***************************************************************************)
EXTENDS Integers, Sequences, FiniteSets, TLC

VARIABLES
    task_memory,   \* memory_manager.task_memory : task_id -> payload
    memory_ttl,    \* memory_manager.memory_ttl  : task_id -> expiry timestamp
    now,           \* time.time()
    puts,          \* number of non-null safe_set_task calls so far (bounds the run)
    hist,          \* the last registry call: its name, its id and what it returned
    putStatus,     \* per id, the status argument of the put that stored the entry
    lc,            \* the end-to-end lifecycle scenario: its position and what it saw
    loop_pc,       \* memory_cleanup_loop: "sleep" (in asyncio.sleep) or "run"
    memory_lock,   \* memory_manager.memory_lock: TRUE while a coroutine holds it
    co,            \* the concurrent registry coroutines: call, position, locals
    order,         \* the coroutines in the order they acquired memory_lock
    base,          \* the registry as it was when the concurrent coroutines started
    PARSER_LOCK,   \* reports.PARSER_LOCK: TRUE while a request holds it
    req,           \* the HTTP requests: endpoint, cache file, position
    cache,         \* the cache artifacts on disk: existence and modification time
    rc,            \* one registry call followed statement by statement, with its effects
    fields,        \* per stored payload, the values of its large fields
    seen,          \* the cache admission decisions taken so far, with what they saw
    restarts,      \* how many times the process has been restarted
    ml,            \* memory_cleanup_loop as a task: position, cycle_count, what it did
    boot,          \* application startup: environment, position, background tasks started
    fcl,           \* the file cleaner: its loop, its clock, the paths it judged and removed
    chan,          \* one scrape of the channel list: position, per-channel outcome, result
    llm,           \* one report generation: the model's response and what was salvaged
    bot,           \* the bot's TaskManager and the callbacks of its users
    art,           \* the artifact of one fixed window: its content, its requests
    dlg            \* one user's dialogue with the bot: FSM state and data

regVars == <<task_memory, memory_ttl, now, puts, hist, putStatus>>

concVars == <<memory_lock, co, order, base>>

scrapeVars == <<PARSER_LOCK, req, cache, seen, restarts>>

reclaimVars == <<rc, fields>>

hostVars == <<ml, boot, fcl, chan, llm, bot, art, dlg>>

\* everything but the variables of the host application
coreVars == <<task_memory, memory_ttl, now, puts, hist, putStatus, lc, loop_pc,
              memory_lock, co, order, base, PARSER_LOCK, req, cache, rc, fields,
              seen, restarts>>

vars == <<task_memory, memory_ttl, now, puts, hist, putStatus, lc, loop_pc,
          memory_lock, co, order, base, PARSER_LOCK, req, cache, rc, fields,
          seen, restarts, hostVars>>

----------------------------------------------------------------------------
(* Bounds of the exploration *)

MaxPuts == 2

\* the horizon of the clock in the runs of memory_cleanup_loop
LiveMaxClock == 720

\* the number of registry coroutines that run concurrently
NumProcs == 2

\* the number of HTTP requests in flight
NumRequests == 2

TaskIds == {"u1_123", "u2_456"}

\* The instants at which the clock is read: the start; for an entry put at the
\* start, the second its short TTL ends (not yet expired) and the one after; and
\* the first second after the default TTL of an entry put at the start.
ClockValues == {0, 300, 301, 3601}

----------------------------------------------------------------------------
(* Payloads.  `data` of safe_set_task is typed Any: a dict (with or without *)
(* a "status" key, possibly empty) or any other object.                     *)

None == [kind |-> "none", truthy |-> FALSE, status |-> "absent"]

DictWith(s) == [kind |-> "dict", truthy |-> TRUE, status |-> s]

\* {} : a dict, falsy
EmptyDict == [kind |-> "dict", truthy |-> FALSE, status |-> "absent"]

\* a non-dict truthy object (a string, a list, ...)
NonDict == [kind |-> "other", truthy |-> TRUE, status |-> "absent"]

\* statuses a payload's "status" key carries in the model ("absent": no key)
PayloadStatuses == {"completed", "error", "processing", "absent"}

Payloads == {DictWith(s) : s \in PayloadStatuses} \cup {EmptyDict, NonDict}

\* the status argument of safe_set_task; "archived" stands for any
\* status that TASK_TTL_RULES does not list
Statuses == {"completed", "error", "processing", "pending", "archived"}

----------------------------------------------------------------------------
(* memory_manager.py *)

TASK_TTL_RULES ==
    [completed |-> 300, processing |-> 0, error |-> 300, pending |-> 0]

\* variant: a rule of 0 seconds is taken for a missing rule
\* (TASK_TTL_RULES.get(status) or 3600)
TtlSecondsZeroIsMissing(status) ==
    IF status \in DOMAIN TASK_TTL_RULES /\ TASK_TTL_RULES[status] > 0
    THEN TASK_TTL_RULES[status]
    ELSE 3600

\* TASK_TTL_RULES.get(status, 3600)
TtlSeconds(status) ==
    IF status \in DOMAIN TASK_TTL_RULES THEN TASK_TTL_RULES[status] ELSE 3600

\* dict.pop(key, None)
Pop(d, key) == [k \in DOMAIN d \ {key} |-> d[k]]

\* d[key] = value
Store(d, key, value) == [k \in DOMAIN d \cup {key} |-> IF k = key THEN value ELSE d[k]]

\* dict.get(key)
Lookup(d, key) == IF key \in DOMAIN d THEN d[key] ELSE None

should_cleanup_by_status(status) ==
    IF status \in {"processing", "pending"}
    THEN FALSE
    ELSE status \in {"completed", "error"}

\* task.get("status", "unknown") if isinstance(task, dict) else "unknown"
StatusOf(task) ==
    IF task.kind = "dict" /\ task.status # "absent" THEN task.status ELSE "unknown"

\* variant: an entry is taken for expired from the very second of its expiry
EvictableAtExpiry(tm, ttl, t, id) ==
    /\ id \in DOMAIN ttl
    /\ t >= ttl[id]
    /\ Lookup(tm, id).truthy
    /\ should_cleanup_by_status(StatusOf(Lookup(tm, id)))

\* variant: an expired entry is evicted whatever its payload says
EvictableByExpiry(tm, ttl, t, id) ==
    /\ id \in DOMAIN ttl
    /\ t > ttl[id]

\* the test both safe_get_task and cleanup_expired_tasks apply to an id that
\* has an expiry record: expired, payload truthy, payload status evictable
Evictable(tm, ttl, t, id) ==
    /\ id \in DOMAIN ttl
    /\ t > ttl[id]
    /\ Lookup(tm, id).truthy
    /\ should_cleanup_by_status(StatusOf(Lookup(tm, id)))

\* variant: the removal branch forgets the expiry record
SetTaskKeepsTtl(tm, ttl, t, id, data, status) ==
    IF data = None
    THEN [tm |-> Pop(tm, id), ttl |-> ttl]
    ELSE IF TtlSeconds(status) > 0
         THEN [tm |-> Store(tm, id, data), ttl |-> Store(ttl, id, t + TtlSeconds(status))]
         ELSE [tm |-> Store(tm, id, data), ttl |-> Pop(ttl, id)]

\* variant: a put with a protected status leaves an earlier expiry record behind
SetTaskStaleTtl(tm, ttl, t, id, data, status) ==
    IF data = None
    THEN [tm |-> Pop(tm, id), ttl |-> Pop(ttl, id)]
    ELSE IF TtlSeconds(status) > 0
         THEN [tm |-> Store(tm, id, data), ttl |-> Store(ttl, id, t + TtlSeconds(status))]
         ELSE [tm |-> Store(tm, id, data), ttl |-> ttl]

\* safe_set_task(task_id, data, status) at clock t
SetTask(tm, ttl, t, id, data, status) ==
    IF data = None
    THEN [tm |-> Pop(tm, id), ttl |-> Pop(ttl, id)]
    ELSE IF TtlSeconds(status) > 0
         THEN [tm |-> Store(tm, id, data), ttl |-> Store(ttl, id, t + TtlSeconds(status))]
         ELSE [tm |-> Store(tm, id, data), ttl |-> Pop(ttl, id)]

\* safe_get_task(task_id) at clock t
GetTask(tm, ttl, t, id) ==
    IF Evictable(tm, ttl, t, id)
    THEN [tm |-> Pop(tm, id), ttl |-> Pop(ttl, id), ret |-> None]
    ELSE [tm |-> tm, ttl |-> ttl, ret |-> Lookup(tm, id)]

\* expired_tasks of cleanup_expired_tasks at clock t
ExpiredTasks(tm, ttl, t) == {id \in DOMAIN ttl : Evictable(tm, ttl, t, id)}

\* variant: the pass counts the expired entries and forgets to pop them
CleanupExpiredNoPop(tm, ttl, t) ==
    [tm |-> tm, ttl |-> ttl, ret |-> Cardinality(ExpiredTasks(tm, ttl, t))]

\* the lock-held part of cleanup_expired_tasks and its return value
CleanupExpired(tm, ttl, t) ==
    LET expired_tasks == ExpiredTasks(tm, ttl, t)
    IN  [tm  |-> [k \in DOMAIN tm \ expired_tasks |-> tm[k]],
         ttl |-> [k \in DOMAIN ttl \ expired_tasks |-> ttl[k]],
         ret |-> Cardinality(expired_tasks)]

----------------------------------------------------------------------------
(* The registry driven by sequential callers: every call runs from the     *)
(* acquisition of memory_lock to its release without a suspension point.   *)

\* The last registry call.  op, id: the call and its task_id; had, hadTtl: whether
\* the id had an entry / an expiry record when a put or a removal started; ret: what safe_get_task
\* returned; n, t: what cleanup_expired_tasks returned and the clock it read;
\* again: the call before this cleanup_expired_tasks was one too.
NoCall == [op |-> "none", id |-> "", had |-> FALSE, hadTtl |-> FALSE,
           ret |-> None, n |-> 0, t |-> 0, again |-> FALSE]

CallOf(op, id) ==
    [NoCall EXCEPT !.op = op, !.id = id,
                   !.had = id \in DOMAIN task_memory,
                   !.hadTtl = id \in DOMAIN memory_ttl]

\* the ids that are still stored keep their put status, the others have none
Forget(ps, tm) == [id \in TaskIds |-> IF id \in DOMAIN tm THEN ps[id] ELSE "none"]

\* the lifecycle scenario before its first step
NoLifecycle == [pc |-> "start", id |-> "", kept1 |-> FALSE, only |-> FALSE,
                evicted2 |-> FALSE, n2 |-> 0, ret |-> None]

\* the registry coroutines
Procs == 1 .. NumProcs

\* a coroutine that has not been created yet; blocked: the lock was held when
\* the coroutine reached `async with memory_lock`
NoCo == [op |-> "none", id |-> "", data |-> None, status |-> "", pc |-> "idle",
         t |-> 0, expired_tasks |-> {}, ret |-> None, n |-> 0, blocked |-> FALSE]

\* the HTTP requests
Requests == 1 .. NumRequests

\* the cache artifacts: the rolling artifact of period "today", and the artifacts
\* of one closed day for the default source and for another source
CacheFiles == {"temp/today_cache.json", "raw_parses/day.json", "raw_parses/day_source_2.json"}

\* a request that has not arrived yet.  gate: it is inside `async with
\* PARSER_LOCK`; hit1: its first cache check admitted the artifact; busy: it
\* went to the gate while another request held it
NoRequest == [ep |-> "none", cache_file |-> "", pc |-> "idle", gate |-> FALSE,
              messages |-> "unset", hit1 |-> FALSE, busy |-> FALSE]

\* an artifact that does not exist.  is_file: a regular file, not a directory;
\* complete: written to its end; writer: who wrote it, with or without the gate
NoFile == [exists |-> FALSE, is_file |-> FALSE, mtime |-> 0, complete |-> FALSE,
           writer |-> "none"]

\* the values a large field of a payload can have: the key is missing, the
\* value is None, the value is empty (falsy, not None), the value is large
FieldValues == {"absent", "null", "empty", "large"}

\* the large fields cleanup_expired_tasks knows
LargeFields == {"file_content", "telegram_text", "messages", "report_data"}

\* a payload without any of the large fields
NoFields == [k \in LargeFields |-> "absent"]

\* no call is running; process: psutil.Process() is available
NoRc == [pc |-> "import", op |-> "none", process |-> FALSE, expired_tasks |-> {},
         todo |-> {}, cur |-> "", popped |-> 0, evicted |-> {}, log |-> <<>>,
         data |-> [task |-> None, status |-> "", fs |-> NoFields]]

\* memory_cleanup_loop before its first sleep ends.  finished: the last
\* iteration that ran to its end; deeps: the iterations that did the deep step;
\* tried: those whose deep step raised;
\* error: the last iteration that raised; at: where the cancellation found the
\* task; other: a coroutine of a request is inside `async with memory_lock`
NoLoop == [pc |-> "sleep", cycle_count |-> 0, finished |-> 0, deeps |-> {}, tried |-> {},
           error |-> 0,
           cancelled |-> FALSE, at |-> "", other |-> FALSE]

\* setup_telegram_webhook has not run
NoBoot == [pc |-> "idle",
           env |-> [TELEGRAM_BOT_TOKEN |-> FALSE, WEBHOOK_HOST |-> FALSE,
                    ENABLE_MEMORY_CLEANUP |-> FALSE, ENABLE_FILE_CLEANUP |-> FALSE],
           webhook |-> "unset", memory_loop |-> FALSE, file_loop |-> FALSE]

\* the file cleaner before anything ran.  path, safe: the path is_path_safe was
\* applied to and its answer; start, t: the hour the loop started and the hour
\* it is now; runs: the hours at which cleanup_old_files started; disk: the
\* files and their age; removed: the files os.remove was called on
NoCleaner == [pc |-> "idle", path |-> <<>>, safe |-> FALSE, start |-> 0, t |-> 0,
              runs |-> <<>>, erred |-> FALSE, disk |-> <<>>, removed |-> {}]

\* parse_telegram_channels has not been called
NoScrape == [pc |-> "idle", tasks |-> <<>>, all_messages |-> <<>>]

\* generate_report_data has not been called.  items, cut: the items of the
\* response the model meant to give and the number of characters that arrived
NoReport == [pc |-> "idle", items |-> <<>>, cut |-> 0, raw_response |-> <<>>,
             outcome |-> [kind |-> "none", items |-> <<>>]]

\* the users of the bot
Users == {1, 2}

\* the bot before any update.  clock: the monotonic clock; _last_action_at: the
\* rate limiter; fsm: the FSM state of each user; sg: for each user the
\* position of each model_ callback and of what it started; _user_tasks: the
\* request whose task the TaskManager holds for the user, 0 for none; stepped:
\* the coroutines that ran since a task finished and its done callback is due
NoBot == [clock |-> 0,
          _last_action_at |-> [u \in Users |-> -1],
          fsm |-> [u \in Users |-> "none"],
          sg |-> [u \in Users |-> <<>>],
          _user_tasks |-> [u \in Users |-> 0],
          stepped |-> {}]

\* a request of the fixed window that has not arrived.  saw, gen: what the
\* artifact held at its first cache check and how often it had been deleted
NoHit == [pc |-> "idle", messages |-> "unset", answer |-> 0, scraped |-> FALSE,
          saw |-> "unset", gen |-> 0]

\* the artifact of a fixed window before any request: no file, the gate free
NoArtifact == [file |-> "absent", gate |-> FALSE, deletes |-> 0,
               rq |-> [r \in Requests |-> NoHit]]

\* no request: the period is missing from the data
NoParams == [report_type |-> "none", period |-> "none", days |-> 0]

\* the dialogue at the report type keyboard, after state.clear().  data: the
\* FSM data; chosen: the user's last period choice; api_params: the request sent
NoDialogue == [state |-> "choosing_report_type",
               data |-> [report_type |-> "none", period |-> "none", days |-> 0],
               chosen |-> [period |-> "none", days |-> 0],
               api_params |-> NoParams]

RegistryInit ==
    /\ task_memory = <<>>
    /\ memory_ttl = <<>>
    /\ now = 0
    /\ puts = 0
    /\ hist = NoCall
    /\ putStatus = [id \in TaskIds |-> "none"]

Init ==
    /\ RegistryInit
    /\ lc = NoLifecycle
    /\ loop_pc = "sleep"
    /\ memory_lock = FALSE
    /\ co = [p \in Procs |-> NoCo]
    /\ order = <<>>
    /\ base = [tm |-> <<>>, ttl |-> <<>>]
    /\ PARSER_LOCK = FALSE
    /\ req = [r \in Requests |-> NoRequest]
    /\ cache = [f \in CacheFiles |-> NoFile]
    /\ seen = {}
    /\ restarts = 0
    /\ rc = NoRc
    /\ fields = [id \in TaskIds |-> NoFields]
    /\ ml = NoLoop
    /\ boot = NoBoot
    /\ fcl = NoCleaner
    /\ chan = NoScrape
    /\ llm = NoReport
    /\ bot = NoBot
    /\ art = NoArtifact
    /\ dlg = NoDialogue

\* the parts of the state the sequential callers of the registry leave alone
others == <<lc, loop_pc, concVars, scrapeVars, reclaimVars, hostVars>>

\* the clock moves forward between calls
Tick ==
    /\ \E t \in ClockValues : t > now /\ now' = t
    /\ UNCHANGED <<task_memory, memory_ttl, puts, hist, putStatus, others>>

\* await safe_set_task(id, data, status), data not None
SetCall(id, data, status) ==
    /\ puts < MaxPuts
    /\ LET r == SetTask(task_memory, memory_ttl, now, id, data, status)
       IN  /\ task_memory' = r.tm
           /\ memory_ttl' = r.ttl
    /\ hist' = CallOf("set", id)
    /\ putStatus' = [putStatus EXCEPT ![id] = status]
    /\ puts' = puts + 1
    /\ UNCHANGED <<now, others>>

\* await safe_set_task(id, None, status)
SetNoneCall(id, status) ==
    /\ LET r == SetTask(task_memory, memory_ttl, now, id, None, status)
       IN  /\ task_memory' = r.tm
           /\ memory_ttl' = r.ttl
           /\ putStatus' = Forget(putStatus, r.tm)
    /\ hist' = CallOf("set_none", id)
    /\ UNCHANGED <<now, puts, others>>

\* await safe_remove_task(id): safe_set_task(id, None) with the default status
RemoveCall(id) ==
    /\ LET r == SetTask(task_memory, memory_ttl, now, id, None, "processing")
       IN  /\ task_memory' = r.tm
           /\ memory_ttl' = r.ttl
           /\ putStatus' = Forget(putStatus, r.tm)
    /\ hist' = CallOf("remove", id)
    /\ UNCHANGED <<now, puts, others>>

\* await safe_get_task(id)
GetCall(id) ==
    /\ LET r == GetTask(task_memory, memory_ttl, now, id)
       IN  /\ task_memory' = r.tm
           /\ memory_ttl' = r.ttl
           /\ putStatus' = Forget(putStatus, r.tm)
           /\ hist' = [NoCall EXCEPT !.op = "get", !.id = id, !.ret = r.ret]
    /\ UNCHANGED <<now, puts, others>>

\* await cleanup_expired_tasks()
CleanupCall ==
    /\ LET r == CleanupExpired(task_memory, memory_ttl, now)
       IN  /\ task_memory' = r.tm
           /\ memory_ttl' = r.ttl
           /\ putStatus' = Forget(putStatus, r.tm)
           /\ hist' = [NoCall EXCEPT !.op = "cleanup", !.n = r.ret, !.t = now,
                                     !.again = (hist.op = "cleanup")]
    /\ UNCHANGED <<now, puts, others>>

safe_set_task == \E id \in TaskIds, data \in Payloads, status \in Statuses : SetCall(id, data, status)

safe_set_none == \E id \in TaskIds, status \in Statuses : SetNoneCall(id, status)

safe_remove_task == \E id \in TaskIds : RemoveCall(id)

safe_get_task == \E id \in TaskIds : GetCall(id)

cleanup_expired_tasks == CleanupCall

Next ==
    \/ Tick
    \/ safe_set_task
    \/ safe_set_none
    \/ safe_remove_task
    \/ safe_get_task
    \/ cleanup_expired_tasks

Spec == Init /\ [][Next]_vars

----------------------------------------------------------------------------
(* The end-to-end lifecycle of one job: put as processing, reclaim pass,   *)
(* put again as completed, clock advanced by more than the TTL, reclaim    *)
(* pass, read.  The payloads of both puts are drawn from Payloads; one     *)
(* unrelated put on another id may happen on the way.                      *)

LcApply(r) ==
    /\ task_memory' = r.tm
    /\ memory_ttl' = r.ttl
    /\ putStatus' = Forget(putStatus, r.tm)

\* safe_set_task(id, data, "processing")
LcPutProcessing ==
    /\ lc.pc = "start"
    /\ \E id \in TaskIds, data \in Payloads :
         /\ task_memory' = SetTask(task_memory, memory_ttl, now, id, data, "processing").tm
         /\ memory_ttl' = SetTask(task_memory, memory_ttl, now, id, data, "processing").ttl
         /\ putStatus' = [putStatus EXCEPT ![id] = "processing"]
         /\ lc' = [lc EXCEPT !.pc = "put1", !.id = id]
    /\ UNCHANGED <<now, puts, hist, loop_pc, concVars, scrapeVars, reclaimVars, hostVars>>

\* cleanup_expired_tasks(), first pass
LcReclaim1 ==
    /\ lc.pc = "put1"
    /\ LET r == CleanupExpired(task_memory, memory_ttl, now)
       IN  /\ LcApply(r)
           /\ lc' = [lc EXCEPT !.pc = "reclaimed1", !.kept1 = lc.id \in DOMAIN r.tm]
    /\ UNCHANGED <<now, puts, hist, loop_pc, concVars, scrapeVars, reclaimVars, hostVars>>

\* safe_set_task(id, data, "completed") for the same id
LcPutCompleted ==
    /\ lc.pc = "reclaimed1"
    /\ \E data \in Payloads :
         /\ task_memory' = SetTask(task_memory, memory_ttl, now, lc.id, data, "completed").tm
         /\ memory_ttl' = SetTask(task_memory, memory_ttl, now, lc.id, data, "completed").ttl
    /\ putStatus' = [putStatus EXCEPT ![lc.id] = "completed"]
    /\ lc' = [lc EXCEPT !.pc = "put2"]
    /\ UNCHANGED <<now, puts, hist, loop_pc, concVars, scrapeVars, reclaimVars, hostVars>>

\* the clock before the second put
LcTick ==
    /\ lc.pc \in {"start", "put1", "reclaimed1"}
    /\ \E t \in ClockValues : t > now /\ t < 3601 /\ now' = t
    /\ UNCHANGED <<task_memory, memory_ttl, puts, hist, putStatus, lc, loop_pc, concVars, scrapeVars, reclaimVars, hostVars>>

\* the clock is advanced by more than 300 seconds after the second put
LcAge ==
    /\ lc.pc = "put2"
    /\ \E t \in ClockValues : t > now + 300 /\ now' = t
    /\ lc' = [lc EXCEPT !.pc = "aged"]
    /\ UNCHANGED <<task_memory, memory_ttl, puts, hist, putStatus, loop_pc, concVars, scrapeVars, reclaimVars, hostVars>>

\* one put by another job on another id, at any moment before the second pass
LcOtherPut ==
    /\ lc.pc \in {"put1", "reclaimed1", "put2", "aged"}
    /\ puts = 0
    /\ \E id \in TaskIds \ {lc.id}, data \in Payloads, status \in Statuses :
         /\ task_memory' = SetTask(task_memory, memory_ttl, now, id, data, status).tm
         /\ memory_ttl' = SetTask(task_memory, memory_ttl, now, id, data, status).ttl
         /\ putStatus' = [putStatus EXCEPT ![id] = status]
    /\ puts' = 1
    /\ UNCHANGED <<now, hist, lc, loop_pc, concVars, scrapeVars, reclaimVars, hostVars>>

\* cleanup_expired_tasks(), second pass
LcReclaim2 ==
    /\ lc.pc = "aged"
    /\ LET r == CleanupExpired(task_memory, memory_ttl, now)
       IN  /\ LcApply(r)
           /\ lc' = [lc EXCEPT !.pc = "reclaimed2",
                                !.only = (DOMAIN task_memory = {lc.id}),
                                !.evicted2 = lc.id \notin DOMAIN r.tm,
                                !.n2 = r.ret]
    /\ UNCHANGED <<now, puts, hist, loop_pc, concVars, scrapeVars, reclaimVars, hostVars>>

\* safe_get_task(id)
LcGet ==
    /\ lc.pc = "reclaimed2"
    /\ LET r == GetTask(task_memory, memory_ttl, now, lc.id)
       IN  /\ LcApply(r)
           /\ lc' = [lc EXCEPT !.pc = "done", !.ret = r.ret]
    /\ UNCHANGED <<now, puts, hist, loop_pc, concVars, scrapeVars, reclaimVars, hostVars>>

LifecycleNext ==
    \/ LcPutProcessing
    \/ LcReclaim1
    \/ LcPutCompleted
    \/ LcTick
    \/ LcAge
    \/ LcOtherPut
    \/ LcReclaim2
    \/ LcGet

LifecycleSpec == Init /\ [][LifecycleNext]_vars

----------------------------------------------------------------------------
(* memory_cleanup_loop beside the request handlers.  The clock is read at   *)
(* the instants the loop wakes up; beyond LiveMaxClock it is no longer      *)
(* told apart.                                                              *)

CLEANUP_INTERVAL == 120

\* await asyncio.sleep(CLEANUP_INTERVAL)
LoopSleep ==
    /\ loop_pc = "sleep"
    /\ now' = IF now + CLEANUP_INTERVAL <= LiveMaxClock THEN now + CLEANUP_INTERVAL ELSE now
    /\ loop_pc' = "run"
    /\ UNCHANGED <<task_memory, memory_ttl, puts, hist, putStatus, lc, concVars, scrapeVars, reclaimVars, hostVars>>

\* cleaned_count = await cleanup_expired_tasks()
LoopCleanup ==
    /\ loop_pc = "run"
    /\ LET r == CleanupExpired(task_memory, memory_ttl, now)
       IN  /\ task_memory' = r.tm
           /\ memory_ttl' = r.ttl
           /\ putStatus' = Forget(putStatus, r.tm)
    /\ loop_pc' = "sleep"
    /\ UNCHANGED <<now, puts, hist, lc, concVars, scrapeVars, reclaimVars, hostVars>>

\* a handler's put; its expiry, if any, lies within the horizon
LivePut ==
    \E id \in TaskIds, data \in Payloads, status \in Statuses :
        /\ now + TtlSeconds(status) < LiveMaxClock
        /\ SetCall(id, data, status)

LiveNext ==
    \/ LoopSleep
    \/ LoopCleanup
    \/ LivePut
    \/ safe_get_task
    \/ safe_remove_task

\* the event loop resumes the sleeping task and runs it up to its next await
LiveSpec == Init /\ [][LiveNext]_vars /\ WF_vars(LoopSleep) /\ WF_vars(LoopCleanup)

----------------------------------------------------------------------------
(* Concurrent registry coroutines.  Each statement of a body that touches   *)
(* a mapping is one step; `async with memory_lock` lets a coroutine in      *)
(* only while no other holds the lock.                                      *)

\* the puts the concurrent coroutines issue: (data, status)
ConcPuts == {<<DictWith("completed"), "completed">>,
             <<DictWith("processing"), "processing">>,
             <<None, "processing">>}

\* variant: the lock lets a coroutine in whoever holds it
CanAcquireAlways(locked) == TRUE

\* asyncio.Lock: acquire() returns at once only when the lock is not held
CanAcquire(locked) == ~locked

\* the parts of the state the coroutines leave alone
concRest == <<puts, hist, putStatus, lc, loop_pc, scrapeVars, reclaimVars, hostVars>>

\* the instants at which the coroutines read the clock: the start, and the
\* first second at which an entry put as completed at the start has expired
ConcClock == {0, 301}

\* the clock moves forward, also while a coroutine holds the lock
CoTick ==
    /\ \E t \in ConcClock : t > now /\ now' = t
    /\ UNCHANGED <<task_memory, memory_ttl, concVars, concRest>>

\* an earlier put that returned before the concurrent coroutines were created
CoSeed ==
    /\ \A p \in Procs : co[p].pc = "idle"
    /\ task_memory = <<>>
    /\ \E id \in TaskIds, put \in ConcPuts :
         /\ put[1] # None
         /\ LET r == SetTask(task_memory, memory_ttl, now, id, put[1], put[2])
            IN  /\ task_memory' = r.tm
                /\ memory_ttl' = r.ttl
                /\ base' = [tm |-> r.tm, ttl |-> r.ttl]
    /\ UNCHANGED <<now, memory_lock, co, order, concRest>>

\* a coroutine is created and reaches `async with memory_lock`
CoCall(p) ==
    /\ co[p].pc = "idle"
    /\ \A q \in Procs : q < p => co[q].pc # "idle"
    /\ \/ \E id \in TaskIds, put \in ConcPuts :
            co' = [co EXCEPT ![p] = [NoCo EXCEPT !.op = "set", !.id = id, !.data = put[1],
                                                 !.status = put[2], !.pc = "wait", !.blocked = memory_lock]]
       \/ \E id \in TaskIds :
            co' = [co EXCEPT ![p] = [NoCo EXCEPT !.op = "get", !.id = id, !.pc = "wait", !.blocked = memory_lock]]
       \/ co' = [co EXCEPT ![p] = [NoCo EXCEPT !.op = "cleanup", !.pc = "wait", !.blocked = memory_lock]]
    /\ UNCHANGED <<task_memory, memory_ttl, now, memory_lock, order, base, concRest>>

\* async with memory_lock: (entry)
CoAcquire(p) ==
    /\ co[p].pc = "wait"
    /\ CanAcquire(memory_lock)
    /\ memory_lock' = TRUE
    /\ order' = Append(order, p)
    /\ co' = [co EXCEPT ![p].pc =
                 CASE co[p].op = "set" /\ co[p].data = None -> "set_pop_tm"
                   [] co[p].op = "set" /\ co[p].data # None -> "set_store"
                   [] co[p].op = "get" -> "get_check"
                   [] OTHER -> "cleanup_scan"]
    /\ UNCHANGED <<task_memory, memory_ttl, now, base, concRest>>

\* safe_set_task, data is None: task_memory.pop(task_id, None)
CoSetPopTm(p) ==
    /\ co[p].pc = "set_pop_tm"
    /\ task_memory' = Pop(task_memory, co[p].id)
    /\ co' = [co EXCEPT ![p].pc = "set_pop_ttl"]
    /\ UNCHANGED <<memory_ttl, now, memory_lock, order, base, concRest>>

\* safe_set_task, data is None: memory_ttl.pop(task_id, None); return
CoSetPopTtl(p) ==
    /\ co[p].pc = "set_pop_ttl"
    /\ memory_ttl' = Pop(memory_ttl, co[p].id)
    /\ co' = [co EXCEPT ![p].pc = "done"]
    /\ memory_lock' = FALSE
    /\ UNCHANGED <<task_memory, now, order, base, concRest>>

\* safe_set_task: task_memory[task_id] = data
CoSetStore(p) ==
    /\ co[p].pc = "set_store"
    /\ task_memory' = Store(task_memory, co[p].id, co[p].data)
    /\ co' = [co EXCEPT ![p].pc = "set_ttl"]
    /\ UNCHANGED <<memory_ttl, now, memory_lock, order, base, concRest>>

\* safe_set_task: the expiry record is written or dropped; the lock is released
CoSetTtl(p) ==
    /\ co[p].pc = "set_ttl"
    /\ memory_ttl' = IF TtlSeconds(co[p].status) > 0
                     THEN Store(memory_ttl, co[p].id, now + TtlSeconds(co[p].status))
                     ELSE Pop(memory_ttl, co[p].id)
    /\ co' = [co EXCEPT ![p].pc = "done", ![p].t = now]
    /\ memory_lock' = FALSE
    /\ UNCHANGED <<task_memory, now, order, base, concRest>>

\* safe_get_task: the expiry test; without eviction, return task_memory.get(task_id)
CoGetCheck(p) ==
    /\ co[p].pc = "get_check"
    /\ IF Evictable(task_memory, memory_ttl, now, co[p].id)
       THEN /\ co' = [co EXCEPT ![p].pc = "get_pop_tm", ![p].t = now]
            /\ UNCHANGED memory_lock
       ELSE /\ co' = [co EXCEPT ![p].pc = "done", ![p].t = now,
                                ![p].ret = Lookup(task_memory, co[p].id)]
            /\ memory_lock' = FALSE
    /\ UNCHANGED <<task_memory, memory_ttl, now, order, base, concRest>>

\* safe_get_task: task_memory.pop(task_id, None)
CoGetPopTm(p) ==
    /\ co[p].pc = "get_pop_tm"
    /\ task_memory' = Pop(task_memory, co[p].id)
    /\ co' = [co EXCEPT ![p].pc = "get_pop_ttl"]
    /\ UNCHANGED <<memory_ttl, now, memory_lock, order, base, concRest>>

\* safe_get_task: memory_ttl.pop(task_id, None); return None
CoGetPopTtl(p) ==
    /\ co[p].pc = "get_pop_ttl"
    /\ memory_ttl' = Pop(memory_ttl, co[p].id)
    /\ co' = [co EXCEPT ![p].pc = "done", ![p].ret = None]
    /\ memory_lock' = FALSE
    /\ UNCHANGED <<task_memory, now, order, base, concRest>>

\* cleanup_expired_tasks: current_time = time.time() and the scan of memory_ttl
CoCleanupScan(p) ==
    /\ co[p].pc = "cleanup_scan"
    /\ LET expired_tasks == ExpiredTasks(task_memory, memory_ttl, now)
       IN  co' = [co EXCEPT ![p].pc = "cleanup_pop", ![p].t = now,
                            ![p].expired_tasks = expired_tasks,
                            ![p].n = Cardinality(expired_tasks)]
    /\ UNCHANGED <<task_memory, memory_ttl, now, memory_lock, order, base, concRest>>

\* cleanup_expired_tasks: one iteration of `for task_id in expired_tasks`
CoCleanupPop(p) ==
    /\ co[p].pc = "cleanup_pop"
    /\ \E id \in co[p].expired_tasks :
         /\ task_memory' = Pop(task_memory, id)
         /\ memory_ttl' = Pop(memory_ttl, id)
         /\ co' = [co EXCEPT ![p].expired_tasks = co[p].expired_tasks \ {id}]
    /\ UNCHANGED <<now, memory_lock, order, base, concRest>>

\* cleanup_expired_tasks: the end of the `async with` block
CoCleanupRelease(p) ==
    /\ co[p].pc = "cleanup_pop"
    /\ co[p].expired_tasks = {}
    /\ co' = [co EXCEPT ![p].pc = "done"]
    /\ memory_lock' = FALSE
    /\ UNCHANGED <<task_memory, memory_ttl, now, order, base, concRest>>

ConcNext ==
    \/ CoTick
    \/ CoSeed
    \/ \E p \in Procs :
         \/ CoCall(p)
         \/ CoAcquire(p)
         \/ CoSetPopTm(p)
         \/ CoSetPopTtl(p)
         \/ CoSetStore(p)
         \/ CoSetTtl(p)
         \/ CoGetCheck(p)
         \/ CoGetPopTm(p)
         \/ CoGetPopTtl(p)
         \/ CoCleanupScan(p)
         \/ CoCleanupPop(p)
         \/ CoCleanupRelease(p)

ConcSpec == Init /\ [][ConcNext]_vars

----------------------------------------------------------------------------
(* The scraping endpoints: POST /api/reports/parse-and-generate             *)
(* (routers/reports.py), POST /api/parser/parse and                         *)
(* POST /api/parser/parse-and-save (routers/parser.py).  A step runs a      *)
(* handler from one await to the next.                                      *)

Endpoints == {"parse_and_generate", "parse", "parse_and_save"}

\* int(os.getenv("TODAY_CACHE_MAX_AGE_SEC", "300"))
TODAY_CACHE_MAX_AGE_SEC == 300

\* the instants at which the handlers read the clock: an artifact written at
\* the start is then 0, 100, 300 or 301 seconds old
ScrapeClock == {0, 100, 300, 301}

\* period == "today": the request's artifact is the rolling one
IsToday(f) == f = "temp/today_cache.json"

\* the artifacts an endpoint can target: routers/parser.py always scrapes the
\* default source; /api/parser/parse keeps no artifact
FilesOf(ep) ==
    CASE ep = "parse_and_generate" -> CacheFiles
      [] ep = "parse_and_save" -> {"temp/today_cache.json", "raw_parses/day.json"}
      [] OTHER -> {""}

\* variant: the age of the artifact is tested whatever the period
use_cache_aged(f, t) ==
    /\ cache[f].exists /\ cache[f].is_file
    /\ t - cache[f].mtime <= TODAY_CACHE_MAX_AGE_SEC

\* variant: an artifact is not admitted while a scrape holds the gate
use_cache_unless_busy(f, t) ==
    /\ cache[f].exists /\ cache[f].is_file
    /\ IsToday(f) => t - cache[f].mtime <= TODAY_CACHE_MAX_AGE_SEC
    /\ ~PARSER_LOCK

\* use_cache of parse_and_generate_report at clock t
use_cache(f, t) ==
    /\ cache[f].exists /\ cache[f].is_file
    /\ IsToday(f) => t - cache[f].mtime <= TODAY_CACHE_MAX_AGE_SEC

\* variant: the cache is not looked at again under the gate
use_cache_after_wait_never(f, t) == FALSE

\* use_cache_after_wait of parse_and_generate_report at clock t
use_cache_after_wait(f, t) ==
    IF cache[f].exists /\ cache[f].is_file
    THEN IF IsToday(f) THEN t - cache[f].mtime <= TODAY_CACHE_MAX_AGE_SEC ELSE TRUE
    ELSE FALSE

\* variant: every request goes to the gate, whatever the first check said
AlwaysToGate(hit) == "wait"

\* if use_cache: (load) else: async with PARSER_LOCK
AfterFirstCheck(hit) == IF hit THEN "load" ELSE "wait"

\* the cache check of parse_and_save
save_uses_cache(f) == ~IsToday(f) /\ cache[f].exists /\ cache[f].is_file

\* the parts of the state the requests leave alone
scrapeRest == <<task_memory, memory_ttl, puts, hist, putStatus, lc, loop_pc, concVars, reclaimVars, hostVars,
               seen, restarts>>

\* the parts of the state a cache check leaves alone, apart from its record
checkRest == <<task_memory, memory_ttl, puts, hist, putStatus, lc, loop_pc, concVars, reclaimVars, hostVars,
              restarts>>

\* variant: an exception leaves the gate held
KeepOnError(r) == UNCHANGED PARSER_LOCK

\* leaving `async with PARSER_LOCK` by an exception, for a request that entered it
ReleaseOnError(r) == PARSER_LOCK' = IF req[r].gate THEN FALSE ELSE PARSER_LOCK

\* leaving `async with PARSER_LOCK`, for a request that entered it
Release(r) == PARSER_LOCK' = IF req[r].gate THEN FALSE ELSE PARSER_LOCK

\* the request ends with an exception
Failed(r) == req' = [req EXCEPT ![r].pc = "failed", ![r].gate = FALSE]

\* an artifact, or a directory, left at the path of an artifact before the
\* process started
EarlierRun ==
    /\ now = 0
    /\ \A r \in Requests : req[r].pc = "idle"
    /\ \A f \in CacheFiles : ~cache[f].exists
    /\ \E f \in CacheFiles, file \in BOOLEAN :
         /\ cache' = [cache EXCEPT ![f] = [exists |-> TRUE, is_file |-> file, mtime |-> 0,
                                           complete |-> file, writer |-> "earlier"]]
    /\ UNCHANGED <<now, PARSER_LOCK, req, scrapeRest>>

\* the clock moves forward
ScrapeTick ==
    /\ \E t \in ScrapeClock : t > now /\ now' = t
    /\ UNCHANGED <<PARSER_LOCK, req, cache, scrapeRest>>

\* a request arrives
ReqArrive(r) ==
    /\ req[r].pc = "idle"
    /\ \A q \in Requests : q < r => req[q].pc # "idle"
    /\ \E ep \in Endpoints, f \in CacheFiles \cup {""} :
         /\ f \in FilesOf(ep)
         /\ req' = [req EXCEPT ![r] = [NoRequest EXCEPT !.ep = ep, !.cache_file = f, !.pc = "start"]]
    /\ UNCHANGED <<now, PARSER_LOCK, cache, scrapeRest>>

\* parse_and_generate_report: the first cache check
FirstCheck(r) ==
    /\ req[r].ep = "parse_and_generate"
    /\ req[r].pc = "start"
    /\ LET hit == use_cache(req[r].cache_file, now)
       IN  req' = [req EXCEPT ![r].pc = AfterFirstCheck(hit), ![r].hit1 = hit,
                              ![r].busy = (~hit /\ PARSER_LOCK)]
    /\ UNCHANGED <<now, PARSER_LOCK, cache, checkRest>>

PgCheck(r) ==
    /\ FirstCheck(r)
    /\ UNCHANGED seen

\* parse_and_generate_report: the artifact is read outside the gate
PgLoad(r) ==
    /\ req[r].pc = "load"
    /\ req' = [req EXCEPT ![r].pc = "done", ![r].messages = "cached"]
    /\ UNCHANGED <<now, PARSER_LOCK, cache, scrapeRest>>

\* parse_and_generate_report: reading or decoding the artifact raises
PgLoadFail(r) ==
    /\ req[r].pc = "load"
    /\ Failed(r)
    /\ UNCHANGED <<now, PARSER_LOCK, cache, scrapeRest>>

\* parse_and_generate_report: `async with PARSER_LOCK` is entered and the
\* cache is checked again
Recheck(r) ==
    /\ req[r].pc = "wait"
    /\ ~PARSER_LOCK
    /\ PARSER_LOCK' = TRUE
    /\ req' = [req EXCEPT ![r].gate = TRUE,
                          ![r].pc = IF use_cache_after_wait(req[r].cache_file, now)
                                    THEN "load_gated" ELSE "scrape"]
    /\ UNCHANGED <<now, cache, checkRest>>

PgAcquire(r) ==
    /\ Recheck(r)
    /\ UNCHANGED seen

\* parse_and_generate_report: the artifact is read under the gate
PgLoadGated(r) ==
    /\ req[r].pc = "load_gated"
    /\ req' = [req EXCEPT ![r].pc = "done", ![r].messages = "cached", ![r].gate = FALSE]
    /\ Release(r)
    /\ UNCHANGED <<now, cache, scrapeRest>>

\* parse_and_generate_report: reading the artifact under the gate raises
PgLoadGatedFail(r) ==
    /\ req[r].pc = "load_gated"
    /\ Failed(r)
    /\ ReleaseOnError(r)
    /\ UNCHANGED <<now, cache, scrapeRest>>

\* parse_channels: messages = await parse_telegram_channels(start_date, end_date)
ParseStart(r) ==
    /\ req[r].ep = "parse"
    /\ req[r].pc = "start"
    /\ req' = [req EXCEPT ![r].pc = "scrape"]
    /\ UNCHANGED <<now, PARSER_LOCK, cache, scrapeRest>>

\* parse_and_save: an existing artifact is read unless the period is "today"
SaveCheck(r) ==
    /\ req[r].ep = "parse_and_save"
    /\ req[r].pc = "start"
    /\ req' = IF save_uses_cache(req[r].cache_file)
              THEN [req EXCEPT ![r].pc = "done", ![r].messages = "cached"]
              ELSE [req EXCEPT ![r].pc = "scrape"]
    /\ UNCHANGED <<now, PARSER_LOCK, cache, scrapeRest>>

\* parse_telegram_channels: `async with TelegramClient(...)` is entered
ScrapeOpen(r) ==
    /\ req[r].pc = "scrape"
    /\ req' = [req EXCEPT ![r].pc = "session"]
    /\ UNCHANGED <<now, PARSER_LOCK, cache, scrapeRest>>

\* parse_telegram_channels raises before the session is opened (channel file
\* missing or undecodable, credentials not set)
ScrapeFail(r) ==
    /\ req[r].pc = "scrape"
    /\ Failed(r)
    /\ ReleaseOnError(r)
    /\ UNCHANGED <<now, cache, scrapeRest>>

\* parse_telegram_channels: the session is closed and the messages returned
ScrapeClose(r) ==
    /\ req[r].pc = "session"
    /\ \E m \in {"empty", "some"} :
         req' = [req EXCEPT ![r].messages = m,
                            ![r].pc = IF req[r].ep = "parse" THEN "done" ELSE "write"]
    /\ UNCHANGED <<now, PARSER_LOCK, cache, scrapeRest>>

\* parse_and_generate_report: aiofiles.open(cache_file, 'w') creates or
\* truncates the artifact
CacheOpen(r) ==
    /\ req[r].ep = "parse_and_generate"
    /\ req[r].pc = "write"
    /\ cache[req[r].cache_file].exists => cache[req[r].cache_file].is_file
    /\ cache' = [cache EXCEPT ![req[r].cache_file] =
                    [exists |-> TRUE, is_file |-> TRUE, mtime |-> now, complete |-> FALSE,
                     writer |-> IF req[r].gate THEN "gated" ELSE "ungated"]]
    /\ req' = [req EXCEPT ![r].pc = "writing"]
    /\ UNCHANGED <<now, PARSER_LOCK, scrapeRest>>

\* parse_and_generate_report: await f.write(json_content); the file is closed
\* and the gate left
CacheWrite(r) ==
    /\ req[r].pc = "writing"
    /\ cache' = [cache EXCEPT ![req[r].cache_file].mtime = now,
                              ![req[r].cache_file].complete = TRUE]
    /\ req' = [req EXCEPT ![r].pc = "done", ![r].gate = FALSE]
    /\ Release(r)
    /\ UNCHANGED <<now, scrapeRest>>

\* parse_and_save: with open(output_file, 'w'): json.dump(...), no await inside
SaveWrite(r) ==
    /\ req[r].ep = "parse_and_save"
    /\ req[r].pc = "write"
    /\ cache[req[r].cache_file].exists => cache[req[r].cache_file].is_file
    /\ cache' = [cache EXCEPT ![req[r].cache_file] =
                    [exists |-> TRUE, is_file |-> TRUE, mtime |-> now, complete |-> TRUE,
                     writer |-> IF req[r].gate THEN "gated" ELSE "ungated"]]
    /\ req' = [req EXCEPT ![r].pc = "done"]
    /\ UNCHANGED <<now, PARSER_LOCK, scrapeRest>>

\* opening or writing the artifact raises
CacheWriteFail(r) ==
    /\ req[r].pc \in {"write", "writing"}
    /\ Failed(r)
    /\ ReleaseOnError(r)
    /\ UNCHANGED <<now, cache, scrapeRest>>

\* the steps of a request of parse_and_generate_report
PgHandler(r) ==
    \/ PgCheck(r)
    \/ PgLoad(r)
    \/ PgLoadFail(r)
    \/ PgAcquire(r)
    \/ PgLoadGated(r)
    \/ PgLoadGatedFail(r)
    \/ ScrapeOpen(r)
    \/ ScrapeFail(r)
    \/ ScrapeClose(r)
    \/ CacheOpen(r)
    \/ CacheWrite(r)
    \/ CacheWriteFail(r)

ScrapeNext ==
    \/ EarlierRun
    \/ ScrapeTick
    \/ \E r \in Requests :
         \/ ReqArrive(r)
         \/ PgHandler(r)
         \/ ParseStart(r)
         \/ SaveCheck(r)
         \/ SaveWrite(r)

ScrapeSpec == Init /\ [][ScrapeNext]_vars

----------------------------------------------------------------------------
(* The requests of POST /api/reports/parse-and-generate among themselves    *)

\* a request of parse_and_generate_report arrives
GateArrive(r) ==
    /\ req[r].pc = "idle"
    /\ \A q \in Requests : q < r => req[q].pc # "idle"
    /\ \E f \in CacheFiles :
         req' = [req EXCEPT ![r] = [NoRequest EXCEPT !.ep = "parse_and_generate",
                                                     !.cache_file = f, !.pc = "start"]]
    /\ UNCHANGED <<now, PARSER_LOCK, cache, scrapeRest>>

\* the instants at which these requests read the clock: the start, and the
\* first second at which an artifact written at the start is too old for "today"
GateClock == {0, 301}

\* the clock moves forward
GateTick ==
    /\ \E t \in GateClock : t > now /\ now' = t
    /\ UNCHANGED <<PARSER_LOCK, req, cache, scrapeRest>>

GateNext ==
    \/ EarlierRun
    \/ GateTick
    \/ \E r \in Requests :
         \/ GateArrive(r)
         \/ PgHandler(r)

GateSpec == Init /\ [][GateNext]_vars

GateLiveNext ==
    \E r \in Requests :
        \/ GateArrive(r)
        \/ PgHandler(r)

\* the event loop resumes every handler that can go on; a scrape terminates
GateLiveSpec ==
    Init /\ [][GateLiveNext]_vars /\ \A r \in Requests : WF_vars(PgHandler(r))

----------------------------------------------------------------------------
(* The cache checks of POST /api/reports/parse-and-generate over several    *)
(* runs of the process.  A restart loses everything the process holds in    *)
(* memory (the requests in flight, PARSER_LOCK) and keeps the artifacts and *)
(* the clock.  Each check is recorded with what it could read.              *)

\* the restarts followed
MaxRestarts == 1

\* what a cache check can read at clock t, and its outcome d
Observed(f, t, d) ==
    [exists |-> cache[f].exists, is_file |-> cache[f].is_file, mtime |-> cache[f].mtime,
     at |-> t, today |-> IsToday(f), use_cache |-> d, run |-> restarts]

\* two checks read the same
SameInputs(a, b) ==
    /\ a.exists = b.exists /\ a.is_file = b.is_file /\ a.mtime = b.mtime
    /\ a.at = b.at /\ a.today = b.today

\* the checks compared: any one check, and every later check that reads the same
Record(o) ==
    IF seen = {}
    THEN seen' \in {{}, {o}}
    ELSE seen' = IF \A a \in seen : SameInputs(a, o) THEN seen \cup {o} ELSE seen

\* a check is compared with one other check: two requests are followed in
\* each run of the process
Compared == {1, 2}

\* one of them arrives, for the rolling window or for a fixed one
RsArrive(r) ==
    /\ r \in Compared
    /\ GateArrive(r)
    /\ req'[r].cache_file \in {"temp/today_cache.json", "raw_parses/day.json"}

\* the first cache check, recorded
RsCheck(r) ==
    /\ FirstCheck(r)
    /\ Record(Observed(req[r].cache_file, now, use_cache(req[r].cache_file, now)))

\* the cache check under the gate, recorded
RsAcquire(r) ==
    /\ Recheck(r)
    /\ Record(Observed(req[r].cache_file, now, use_cache_after_wait(req[r].cache_file, now)))

\* the process is stopped and started again: PARSER_LOCK = asyncio.Lock(), no
\* request in flight; an artifact that was being written stays as it is
Restart ==
    /\ restarts < MaxRestarts
    /\ restarts' = restarts + 1
    /\ PARSER_LOCK' = FALSE
    /\ req' = [r \in Requests |-> NoRequest]
    /\ UNCHANGED <<task_memory, memory_ttl, now, puts, hist, putStatus, lc, loop_pc, concVars,
                   reclaimVars, hostVars, cache, seen>>

RestartNext ==
    \/ EarlierRun
    \/ GateTick
    \/ Restart
    \/ \E r \in Requests :
         \/ RsArrive(r)
         \/ RsCheck(r)
         \/ RsAcquire(r)
         \/ PgLoad(r)
         \/ PgLoadFail(r)
         \/ PgLoadGated(r)
         \/ PgLoadGatedFail(r)
         \/ ScrapeOpen(r)
         \/ ScrapeFail(r)
         \/ ScrapeClose(r)
         \/ CacheOpen(r)
         \/ CacheWrite(r)
         \/ CacheWriteFail(r)

RestartSpec == Init /\ [][RestartNext]_vars

----------------------------------------------------------------------------
(* One registry call at a time, followed statement by statement together   *)
(* with what it does outside the two mappings: process-metrics queries,     *)
(* garbage collections, heap trims.  Each effect is logged with the state   *)
(* of memory_lock at the moment it happens.                                 *)

\* the puts of this part: (data, status)
RcPuts == {<<DictWith("completed"), "completed">>,
           <<DictWith("processing"), "processing">>,
           <<NonDict, "completed">>}

\* the large fields the payloads are put with
FieldSamples ==
    {NoFields,
     [k \in LargeFields |-> "large"],
     [k \in LargeFields |-> IF k \in {"file_content", "messages"} THEN "empty" ELSE "large"],
     [k \in LargeFields |-> IF k = "file_content" THEN "large" ELSE "null"]}

\* an effect, with the state of the lock when it happens
Effect(e) == [e |-> e, locked |-> memory_lock]

\* process.memory_info(), when psutil is available
Rss == IF rc.process THEN <<Effect("rss")>> ELSE <<>>

\* variant: the large fields are left as they are
NullNothing(fs) == fs

\* if key in task and task[key]: task[key] = None, for the four large fields
NullLarge(fs) == [k \in LargeFields |-> IF fs[k] = "large" THEN "null" ELSE fs[k]]

\* step 2 of cleanup_expired_tasks on one payload
NullFields(task, fs) ==
    IF task.truthy /\ task.kind = "dict" THEN NullLarge(fs) ELSE fs

\* variant: the full collection is run whatever the pass evicted
CollectionsAlwaysFull(any) ==
    <<Effect("gc0"), Effect("gc1"), Effect("gc2"), Effect("gc_full"), Effect("trim")>>

\* step 4 of cleanup_expired_tasks: the collections and the heap trim, given
\* whether expired_tasks is non-empty
Collections(any) ==
    IF any
    THEN <<Effect("gc0"), Effect("gc1"), Effect("gc2"), Effect("gc_full"), Effect("trim")>>
    ELSE <<Effect("gc0"), Effect("trim")>>

\* the parts of the state this part leaves alone
reclaimRest == <<puts, hist, putStatus, lc, loop_pc, co, order, base, scrapeVars, hostVars>>

\* import of memory_manager: psutil is available or not
RcImport ==
    /\ rc.pc = "import"
    /\ \E b \in BOOLEAN : rc' = [rc EXCEPT !.pc = "idle", !.process = b]
    /\ UNCHANGED <<task_memory, memory_ttl, now, memory_lock, fields, reclaimRest>>

\* the clock moves between calls
RcTick ==
    /\ rc.pc = "idle"
    /\ \E t \in ConcClock : t > now /\ now' = t
    /\ UNCHANGED <<task_memory, memory_ttl, memory_lock, rc, fields, reclaimRest>>

\* a call starts; cur: its task_id, data: its payload and large fields.
\* manual_cleanup is `return await cleanup_expired_tasks()`
RcCall ==
    /\ rc.pc = "idle"
    /\ \/ \E id \in TaskIds, put \in RcPuts, fs \in FieldSamples :
            /\ put[1].kind # "dict" => fs = NoFields
            /\ rc' = [NoRc EXCEPT !.process = rc.process, !.pc = "acquire", !.op = "set",
                                  !.cur = id,
                                  !.data = [task |-> put[1], status |-> put[2], fs |-> fs]]
       \/ \E id \in TaskIds :
            rc' = [NoRc EXCEPT !.process = rc.process, !.pc = "acquire", !.op = "get", !.cur = id]
       \/ rc' = [NoRc EXCEPT !.process = rc.process, !.pc = "measure", !.op = "cleanup"]
       \/ rc' = [NoRc EXCEPT !.process = rc.process, !.pc = "measure", !.op = "manual_cleanup"]
       \/ rc' = [NoRc EXCEPT !.process = rc.process, !.pc = "acquire", !.op = "stats"]
    /\ UNCHANGED <<task_memory, memory_ttl, now, memory_lock, fields, reclaimRest>>

\* cleanup_expired_tasks: memory_before_mb
RcMeasure ==
    /\ rc.pc = "measure"
    /\ rc' = [rc EXCEPT !.pc = "acquire", !.log = rc.log \o Rss]
    /\ UNCHANGED <<task_memory, memory_ttl, now, memory_lock, fields, reclaimRest>>

\* async with memory_lock: (entry)
RcAcquire ==
    /\ rc.pc = "acquire"
    /\ CanAcquire(memory_lock)
    /\ memory_lock' = TRUE
    /\ rc' = [rc EXCEPT !.pc = CASE rc.op = "set" -> "set_body"
                                 [] rc.op = "get" -> "get_body"
                                 [] rc.op = "stats" -> "stats_body"
                                 [] OTHER -> "scan"]
    /\ UNCHANGED <<task_memory, memory_ttl, now, fields, reclaimRest>>

\* safe_set_task: the body and the release of the lock
RcSetBody ==
    /\ rc.pc = "set_body"
    /\ LET r == SetTask(task_memory, memory_ttl, now, rc.cur, rc.data.task, rc.data.status)
       IN  /\ task_memory' = r.tm
           /\ memory_ttl' = r.ttl
    /\ fields' = [fields EXCEPT ![rc.cur] = rc.data.fs]
    /\ rc' = [rc EXCEPT !.pc = "returned", !.log = Append(rc.log, Effect("mapping"))]
    /\ memory_lock' = FALSE
    /\ UNCHANGED <<now, reclaimRest>>

\* safe_get_task: the body and the release of the lock
RcGetBody ==
    /\ rc.pc = "get_body"
    /\ LET r == GetTask(task_memory, memory_ttl, now, rc.cur)
       IN  /\ task_memory' = r.tm
           /\ memory_ttl' = r.ttl
           /\ fields' = [fields EXCEPT ![rc.cur] =
                            IF rc.cur \in DOMAIN r.tm THEN fields[rc.cur] ELSE NoFields]
    /\ rc' = [rc EXCEPT !.pc = "returned", !.log = Append(rc.log, Effect("mapping"))]
    /\ memory_lock' = FALSE
    /\ UNCHANGED <<now, reclaimRest>>

\* get_memory_stats: the body and the release of the lock
RcStatsBody ==
    /\ rc.pc = "stats_body"
    /\ rc' = [rc EXCEPT !.pc = "returned",
                        !.log = rc.log \o <<Effect("mapping"), Effect("gc_count")>> \o Rss]
    /\ memory_lock' = FALSE
    /\ UNCHANGED <<task_memory, memory_ttl, now, fields, reclaimRest>>

\* cleanup_expired_tasks, step 1: the scan of memory_ttl
RcScan ==
    /\ rc.pc = "scan"
    /\ LET expired_tasks == ExpiredTasks(task_memory, memory_ttl, now)
       IN  rc' = [rc EXCEPT !.pc = "loop", !.expired_tasks = expired_tasks,
                            !.todo = expired_tasks,
                            !.log = Append(rc.log, Effect("mapping"))]
    /\ UNCHANGED <<task_memory, memory_ttl, now, memory_lock, fields, reclaimRest>>

\* cleanup_expired_tasks, step 2, for the next task_id of expired_tasks
RcNull ==
    /\ rc.pc = "loop"
    /\ \E id \in rc.todo :
         /\ rc' = [rc EXCEPT !.pc = "pop", !.cur = id]
         /\ fields' = [fields EXCEPT ![id] = NullFields(Lookup(task_memory, id), fields[id])]
    /\ UNCHANGED <<task_memory, memory_ttl, now, memory_lock, reclaimRest>>

\* cleanup_expired_tasks, step 3: the entry and its expiry record are popped;
\* evicted keeps the large fields as the payload has them when it leaves
RcPop ==
    /\ rc.pc = "pop"
    /\ task_memory' = Pop(task_memory, rc.cur)
    /\ memory_ttl' = Pop(memory_ttl, rc.cur)
    /\ fields' = [fields EXCEPT ![rc.cur] = NoFields]
    /\ rc' = [rc EXCEPT !.pc = "loop", !.todo = rc.todo \ {rc.cur},
                        !.popped = rc.popped + 1,
                        !.evicted = rc.evicted \cup
                            {[id |-> rc.cur, fs |-> fields[rc.cur], locked |-> memory_lock]},
                        !.log = Append(rc.log, Effect("mapping"))]
    /\ UNCHANGED <<now, memory_lock, reclaimRest>>

\* cleanup_expired_tasks: the end of the `async with` block
RcRelease ==
    /\ rc.pc = "loop"
    /\ rc.todo = {}
    /\ memory_lock' = FALSE
    /\ rc' = [rc EXCEPT !.pc = "collect"]
    /\ UNCHANGED <<task_memory, memory_ttl, now, fields, reclaimRest>>

\* cleanup_expired_tasks, steps 4 and 5: collections, heap trim, memory_after_mb
RcCollect ==
    /\ rc.pc = "collect"
    /\ rc' = [rc EXCEPT !.pc = "returned",
                        !.log = rc.log \o Collections(rc.expired_tasks # {}) \o Rss]
    /\ UNCHANGED <<task_memory, memory_ttl, now, memory_lock, fields, reclaimRest>>

\* the call has returned to its caller
RcReturn ==
    /\ rc.pc = "returned"
    /\ rc' = [NoRc EXCEPT !.process = rc.process, !.pc = "idle"]
    /\ UNCHANGED <<task_memory, memory_ttl, now, memory_lock, fields, reclaimRest>>

ReclaimNext ==
    \/ RcImport
    \/ RcTick
    \/ RcCall
    \/ RcMeasure
    \/ RcAcquire
    \/ RcSetBody
    \/ RcGetBody
    \/ RcStatsBody
    \/ RcScan
    \/ RcNull
    \/ RcPop
    \/ RcRelease
    \/ RcCollect
    \/ RcReturn

ReclaimSpec == Init /\ [][ReclaimNext]_vars

----------------------------------------------------------------------------
(* memory_cleanup_loop as a task of the event loop, with the pass of        *)
(* cleanup_expired_tasks followed statement by statement.  The task can be  *)
(* cancelled where it is suspended: in asyncio.sleep, and in the entry of   *)
(* `async with memory_lock` while another coroutine holds the lock.         *)

\* the iterations followed
MaxCycles == 10

\* the variables the loop leaves alone
loopRest == <<puts, hist, putStatus, lc, loop_pc, co, order, base, scrapeVars,
              boot, fcl, chan, llm, bot, art, dlg>>

\* cycle_count % 5 == 0
DeepCycle(n) == n % 5 = 0

\* variant: an exception leaves the `while True`
StopOnError == "ended"

\* except Exception as e: logger.error(...); the `while True` goes on
AfterError == "sleep"

\* variant: the task is taken to be cancellable at every statement of an iteration
SuspendedAnywhere == ml.pc \in {"sleep", "pass", "deep"}

\* the task is suspended: in asyncio.sleep, or waiting for memory_lock
Suspended ==
    \/ ml.pc = "sleep"
    \/ ml.pc = "pass" /\ rc.pc = "acquire" /\ memory_lock

\* the loop's pass is inside `async with memory_lock`
LoopHolds == ml.pc = "pass" /\ rc.pc \in {"scan", "loop", "pop"}

\* a request's coroutine puts a finished job: `async with memory_lock` is entered
MlOtherAcquire ==
    /\ ml.pc # "ended"
    /\ ~ml.other
    /\ ~memory_lock
    /\ memory_lock' = TRUE
    /\ ml' = [ml EXCEPT !.other = TRUE]
    /\ UNCHANGED <<task_memory, memory_ttl, now, rc, fields, loopRest>>

\* the body of its safe_set_task, and the lock is left
MlOtherPut ==
    /\ ml.other
    /\ \E id \in TaskIds, fs \in {NoFields, [k \in LargeFields |-> "large"]} :
         LET r == SetTask(task_memory, memory_ttl, now, id, DictWith("completed"), "completed")
         IN  /\ task_memory' = r.tm
             /\ memory_ttl' = r.ttl
             /\ fields' = [fields EXCEPT ![id] = fs]
    /\ memory_lock' = FALSE
    /\ ml' = [ml EXCEPT !.other = FALSE]
    /\ UNCHANGED <<now, rc, loopRest>>

\* await asyncio.sleep(CLEANUP_INTERVAL) returns; cycle_count += 1; the pass starts
MlWake ==
    /\ ml.pc = "sleep"
    /\ rc.pc = "idle"
    /\ ml.cycle_count < MaxCycles
    /\ now' = now + CLEANUP_INTERVAL
    /\ ml' = [ml EXCEPT !.pc = "pass", !.cycle_count = ml.cycle_count + 1]
    /\ rc' = [NoRc EXCEPT !.process = rc.process, !.pc = "measure", !.op = "cleanup"]
    /\ UNCHANGED <<task_memory, memory_ttl, memory_lock, fields, loopRest>>

\* cleaned_count = await cleanup_expired_tasks() has returned
MlReturn ==
    /\ ml.pc = "pass"
    /\ rc.pc = "returned"
    /\ rc' = [NoRc EXCEPT !.process = rc.process, !.pc = "idle"]
    /\ ml' = IF DeepCycle(ml.cycle_count)
             THEN [ml EXCEPT !.pc = "deep"]
             ELSE [ml EXCEPT !.pc = "sleep", !.finished = ml.cycle_count]
    /\ UNCHANGED <<task_memory, memory_ttl, now, memory_lock, fields, loopRest>>

\* the pass raises: process.memory_info() before the lock, the size estimate of
\* the next expired payload inside it, a collection or a measure after it; the
\* `async with` leaves the lock on the way out
MlPassRaises ==
    /\ ml.pc = "pass"
    /\ \/ rc.pc = "measure" /\ rc.process
       \/ rc.pc = "loop" /\ rc.todo # {}
       \/ rc.pc = "collect"
    /\ memory_lock' = IF rc.pc = "loop" THEN FALSE ELSE memory_lock
    /\ rc' = [NoRc EXCEPT !.process = rc.process, !.pc = "idle"]
    /\ ml' = [ml EXCEPT !.pc = AfterError, !.error = ml.cycle_count,
                        !.finished = ml.cycle_count]
    /\ UNCHANGED <<task_memory, memory_ttl, now, fields, loopRest>>

\* the deep step: gc.collect(2), release_memory_to_os()
MlDeep ==
    /\ ml.pc = "deep"
    /\ ml' = [ml EXCEPT !.pc = "sleep", !.deeps = ml.deeps \cup {ml.cycle_count},
                        !.finished = ml.cycle_count]
    /\ UNCHANGED <<task_memory, memory_ttl, now, memory_lock, rc, fields, loopRest>>

\* the deep step raises: process.memory_info() before gc.collect(2)
MlDeepRaises ==
    /\ ml.pc = "deep"
    /\ rc.process
    /\ ml' = [ml EXCEPT !.pc = AfterError, !.error = ml.cycle_count,
                        !.tried = ml.tried \cup {ml.cycle_count},
                        !.finished = ml.cycle_count]
    /\ UNCHANGED <<task_memory, memory_ttl, now, memory_lock, rc, fields, loopRest>>

\* task.cancel(): CancelledError is raised where the task is suspended; it is
\* not an Exception, so it leaves the `while True`
MlCancel ==
    /\ ml.pc # "ended"
    /\ Suspended
    /\ ml' = [ml EXCEPT !.pc = "ended", !.cancelled = TRUE,
                        !.at = IF ml.pc = "sleep" THEN "sleep"
                               ELSE IF rc.pc = "acquire" THEN "lock" ELSE "running"]
    /\ rc' = [NoRc EXCEPT !.process = rc.process, !.pc = IF rc.pc = "import" THEN "import" ELSE "idle"]
    /\ UNCHANGED <<task_memory, memory_ttl, now, memory_lock, fields, loopRest>>

LoopNext ==
    \/ RcImport
    \/ MlOtherAcquire
    \/ MlOtherPut
    \/ MlWake
    \/ RcMeasure
    \/ RcAcquire
    \/ RcScan
    \/ RcNull
    \/ RcPop
    \/ RcRelease
    \/ RcCollect
    \/ MlReturn
    \/ MlPassRaises
    \/ MlDeep
    \/ MlDeepRaises
    \/ MlCancel

LoopSpec == Init /\ [][LoopNext]_vars

----------------------------------------------------------------------------
(* Application startup: setup_telegram_webhook of app.py, run once by the   *)
(* "startup" event, for every environment.                                  *)

\* the variables startup leaves alone
bootRest == <<coreVars, ml, fcl, chan, llm, bot, art, dlg>>

\* the environment of the process, and the handler before its first statement.
\* memory_loop, file_loop: asyncio.create_task(...) was called for the loop
Environments ==
    [TELEGRAM_BOT_TOKEN : BOOLEAN, WEBHOOK_HOST : BOOLEAN,
     ENABLE_MEMORY_CLEANUP : BOOLEAN, ENABLE_FILE_CLEANUP : BOOLEAN]

\* `return` on a missing TELEGRAM_BOT_TOKEN or WEBHOOK_HOST leaves the handler
OnMissingSetting == "done"

\* the process starts with some environment
BootStart ==
    /\ boot.pc = "idle"
    /\ \E env \in Environments :
         boot' = [pc |-> "token", env |-> env, webhook |-> "unset",
                  memory_loop |-> FALSE, file_loop |-> FALSE]
    /\ UNCHANGED bootRest

\* BOT_TOKEN = os.getenv("TELEGRAM_BOT_TOKEN"); if not BOT_TOKEN: return
BootToken ==
    /\ boot.pc = "token"
    /\ boot' = [boot EXCEPT !.pc = IF boot.env.TELEGRAM_BOT_TOKEN THEN "import"
                                  ELSE OnMissingSetting]
    /\ UNCHANGED bootRest

\* from telegram_bot import bot, dp: the import succeeds or raises;
\* if not WEBHOOK_HOST: return
BootImport ==
    /\ boot.pc = "import"
    /\ \/ boot' = [boot EXCEPT !.pc = IF boot.env.WEBHOOK_HOST THEN "webhook"
                                     ELSE OnMissingSetting]
       \/ boot' = [boot EXCEPT !.pc = "memory", !.webhook = "import_failed"]
    /\ UNCHANGED bootRest

\* await bot.set_webhook(...): it succeeds, or it raises and the exception is
\* logged
BootWebhook ==
    /\ boot.pc = "webhook"
    /\ \/ boot' = [boot EXCEPT !.pc = "info", !.webhook = "set"]
       \/ boot' = [boot EXCEPT !.pc = "memory", !.webhook = "failed"]
    /\ UNCHANGED bootRest

\* webhook_info = await bot.get_webhook_info(): likewise
BootWebhookInfo ==
    /\ boot.pc = "info"
    /\ \E w \in {"checked", "check_failed"} :
         boot' = [boot EXCEPT !.pc = "memory", !.webhook = w]
    /\ UNCHANGED bootRest

\* if ENABLE_MEMORY_CLEANUP: asyncio.create_task(memory_cleanup_loop())
BootMemory ==
    /\ boot.pc = "memory"
    /\ boot' = [boot EXCEPT !.pc = "files", !.memory_loop = boot.env.ENABLE_MEMORY_CLEANUP]
    /\ UNCHANGED bootRest

\* if ENABLE_FILE_CLEANUP: asyncio.create_task(file_cleanup_loop())
BootFiles ==
    /\ boot.pc = "files"
    /\ boot' = [boot EXCEPT !.pc = "done", !.file_loop = boot.env.ENABLE_FILE_CLEANUP]
    /\ UNCHANGED bootRest

BootNext ==
    \/ BootStart
    \/ BootToken
    \/ BootImport
    \/ BootWebhook
    \/ BootWebhookInfo
    \/ BootMemory
    \/ BootFiles

BootSpec == Init /\ [][BootNext]_vars

----------------------------------------------------------------------------
(* The file cleaner of services/file_cleaner.py.  A path is the sequence of *)
(* its components; its text is a sequence of symbols in which "/" is the    *)
(* separator and a component is one or two symbols, so that one component   *)
(* can be a proper prefix of another ("raw_parses", "raw_parses" "_old").   *)
(* The clock of the loop counts whole hours of Moscow time from a midnight. *)

\* the variables the file cleaner leaves alone
cleanerRest == <<coreVars, ml, boot, chan, llm, bot, art, dlg>>

\* the longest path judged, in components
MaxDepth == 3

\* the days the loop is followed
MaxDays == 4

\* the components
Names == {<<"data">>, <<"raw_parses">>, <<"raw_parses", "_old">>, <<"temp">>,
          <<"telegram_parser_session">>, <<"..">>, <<"a.json">>}

\* the absolute paths of at most MaxDepth components
Paths == UNION {[1 .. n -> Names] : n \in 1 .. MaxDepth}

\* os.path.normpath of an absolute path: ".." removes the component before it
RECURSIVE normpath(_)
normpath(p) ==
    IF p = <<>> THEN <<>>
    ELSE LET front == normpath(SubSeq(p, 1, Len(p) - 1))
             last == p[Len(p)]
         IN  IF last = <<"..">>
             THEN IF front = <<>> THEN <<>> ELSE SubSeq(front, 1, Len(front) - 1)
             ELSE Append(front, last)

\* the text of a path: "/" before each component ("/" alone for the root)
RECURSIVE Text(_)
Text(p) ==
    IF p = <<>> THEN <<"/">>
    ELSE IF Len(p) = 1 THEN <<"/">> \o p[1]
    ELSE Text(SubSeq(p, 1, Len(p) - 1)) \o <<"/">> \o p[Len(p)]

\* str.startswith
startswith(s, prefix) ==
    /\ Len(s) >= Len(prefix)
    /\ SubSeq(s, 1, Len(prefix)) = prefix

TARGET_DIRECTORY == <<"/", "data", "/", "raw_parses">>

FORBIDDEN_PATHS == {<<"/", "data", "/", "temp">>,
                    <<"/", "data", "/", "telegram_parser_session">>}

\* is_path_safe(filepath)
is_path_safe(filepath) ==
    LET normalized_path == Text(normpath(filepath))
    IN  /\ startswith(normalized_path, TARGET_DIRECTORY)
        /\ \A forbidden \in FORBIDDEN_PATHS : ~startswith(normalized_path, forbidden)

\* the path is the directory /data/raw_parses or lies below it
InsideTarget(p) ==
    LET n == normpath(p)
    IN  Len(n) >= 2 /\ n[1] = <<"data">> /\ n[2] = <<"raw_parses">>

\* the files that can be on the disk
DiskFiles ==
    {<<<<"data">>, <<"raw_parses">>, <<"a.json">>>>,
     <<<<"data">>, <<"raw_parses">>, <<"temp">>, <<"a.json">>>>,
     <<<<"data">>, <<"raw_parses", "_old">>, <<"a.json">>>>,
     <<<<"data">>, <<"temp">>, <<"a.json">>>>}

\* os.walk(TARGET_DIRECTORY): the files below the directory, as
\* os.path.join(root, filename)
Walk(disk) == {f \in DOMAIN disk : Len(f) > 2 /\ f[1] = <<"data">> /\ f[2] = <<"raw_parses">>}

\* the files one call of cleanup_old_files removes: file_mtime < cutoff_timestamp
Removable(disk) == {f \in Walk(disk) : is_path_safe(f) /\ disk[f] = "old"}

\* int(os.getenv("CLEANUP_TIME_HOUR", "3"))
CLEANUP_TIME_HOUR == 3

\* calculate_seconds_until_target_time(target_hour) at hour t, in hours
calculate_until_target_time(target_hour, t) ==
    LET target_today == (t \div 24) * 24 + target_hour
        target_time == IF t >= target_today THEN target_today + 24 ELSE target_today
    IN  target_time - t

\* is_path_safe is applied to some path
FcJudge ==
    /\ fcl.pc = "idle"
    /\ \E p \in Paths :
         fcl' = [fcl EXCEPT !.pc = "judged", !.path = p, !.safe = is_path_safe(p)]
    /\ UNCHANGED cleanerRest

\* file_cleanup_loop is started at some hour of the first day, with some files
\* on the disk, each older than the retention period or not
FlStart ==
    /\ fcl.pc = "idle"
    /\ \E h \in 0 .. 23, files \in SUBSET DiskFiles :
         \E disk \in [files -> {"old", "recent"}] :
            fcl' = [fcl EXCEPT !.pc = "plan", !.start = h, !.t = h, !.disk = disk]
    /\ UNCHANGED cleanerRest

\* seconds_until_cleanup = calculate_seconds_until_target_time(CLEANUP_TIME_HOUR);
\* await asyncio.sleep(seconds_until_cleanup)
FlSleepUntil ==
    /\ fcl.pc = "plan"
    /\ fcl.t + calculate_until_target_time(CLEANUP_TIME_HOUR, fcl.t) < 24 * MaxDays
    /\ fcl' = [fcl EXCEPT !.pc = "run",
                          !.t = fcl.t + calculate_until_target_time(CLEANUP_TIME_HOUR, fcl.t)]
    /\ UNCHANGED cleanerRest

\* result = await cleanup_old_files(): it starts now and takes less than an
\* hour, or about an hour
FlRun ==
    /\ fcl.pc = "run"
    /\ \E d \in {0, 1} :
         fcl' = [fcl EXCEPT !.pc = "day", !.t = fcl.t + d,
                            !.runs = Append(fcl.runs, fcl.t),
                            !.removed = fcl.removed \cup Removable(fcl.disk),
                            !.disk = [f \in DOMAIN fcl.disk \ Removable(fcl.disk) |-> fcl.disk[f]]]
    /\ UNCHANGED cleanerRest

\* await asyncio.sleep(86400), then the `while True` starts over
FlSleepDay ==
    /\ fcl.pc = "day"
    /\ fcl.t + 24 < 24 * MaxDays
    /\ fcl' = [fcl EXCEPT !.pc = "plan", !.t = fcl.t + 24]
    /\ UNCHANGED cleanerRest

\* an exception in the body: except Exception: await asyncio.sleep(3600); one
\* such failure is followed
FlError ==
    /\ fcl.pc \in {"plan", "run"}
    /\ ~fcl.erred
    /\ fcl.t + 1 < 24 * MaxDays
    /\ fcl' = [fcl EXCEPT !.pc = "plan", !.t = fcl.t + 1, !.erred = TRUE]
    /\ UNCHANGED cleanerRest

\* except asyncio.CancelledError: break
FlCancel ==
    /\ fcl.pc \in {"run", "day", "plan"}
    /\ fcl' = [fcl EXCEPT !.pc = "ended"]
    /\ UNCHANGED cleanerRest

CleanerNext ==
    \/ FcJudge
    \/ FlStart
    \/ FlSleepUntil
    \/ FlRun
    \/ FlSleepDay
    \/ FlError
    \/ FlCancel

CleanerSpec == Init /\ [][CleanerNext]_vars

----------------------------------------------------------------------------
(* One call of parse_telegram_channels (services/telegram_parser.py): the   *)
(* tasks of parse_channel, one per channel of the list, run interleaved     *)
(* under asyncio.gather.                                                    *)

\* the variables a scrape leaves alone
chanRest == <<coreVars, ml, boot, fcl, llm, bot, art, dlg>>

\* the channels of the list
NumChannels == 3

Channels == 1 .. NumChannels

\* a message of channel c as iter_messages yields it: its id, its date
\* relative to [start_date, end_date), whether it has text
Msg(c, id, date, text) == [channel_name |-> c, message_id |-> id, date |-> date, text |-> text]

\* what the channels can hold, newest message first
Feeds(c) ==
    {<<>>,
     <<Msg(c, 2, "in", TRUE), Msg(c, 1, "in", TRUE)>>,
     <<Msg(c, 4, "after", TRUE), Msg(c, 3, "in", TRUE), Msg(c, 2, "in", FALSE),
       Msg(c, 1, "before", TRUE)>>}

\* a task of parse_channel before its first statement
NoTask == [pc |-> "join", feed |-> <<>>, pos |-> 1, collected_messages |-> <<>>,
           result |-> <<>>, failed |-> FALSE]

\* variant: what was collected before the error is returned
KeepCollected(collected_messages) == collected_messages

\* except (ChannelInvalidError, ...): return []; except Exception: return []
OnChannelError(collected_messages) == <<>>

\* [message for result in results for message in result], results in the order
\* of the channel list
RECURSIVE Flatten(_, _)
Flatten(results, n) ==
    IF n = 0 THEN <<>> ELSE Flatten(results, n - 1) \o results[n]

\* the messages parse_channel returns for a feed it reads to the end
RECURSIVE Collected(_)
Collected(feed) ==
    IF feed = <<>> THEN <<>>
    ELSE IF Head(feed).date = "before" THEN <<>>
    ELSE IF Head(feed).date = "in" /\ Head(feed).text
         THEN <<Head(feed)>> \o Collected(Tail(feed))
         ELSE Collected(Tail(feed))

\* the channel list is read, the session is opened and the tasks are created
ChanStart ==
    /\ chan.pc = "idle"
    /\ \E feeds \in [Channels -> UNION {Feeds(c) : c \in Channels}] :
         /\ \A c \in Channels : feeds[c] \in Feeds(c)
         /\ chan' = [chan EXCEPT !.pc = "gather",
                                 !.tasks = [c \in Channels |-> [NoTask EXCEPT !.feed = feeds[c]]]]
    /\ UNCHANGED chanRest

\* the channel file is missing or undecodable, or the credentials are not set
ChanLoadFail ==
    /\ chan.pc = "idle"
    /\ chan' = [chan EXCEPT !.pc = "raised"]
    /\ UNCHANGED chanRest

\* await client(JoinChannelRequest(channel_name)); an exception is passed over
ChJoin(c) ==
    /\ chan.pc = "gather"
    /\ chan.tasks[c].pc = "join"
    /\ chan' = [chan EXCEPT !.tasks[c].pc = "iter"]
    /\ UNCHANGED chanRest

\* async for message in client.iter_messages(channel_name): one message
ChMessage(c) ==
    /\ chan.pc = "gather"
    /\ chan.tasks[c].pc = "iter"
    /\ chan.tasks[c].pos <= Len(chan.tasks[c].feed)
    /\ LET t == chan.tasks[c]
           message == t.feed[t.pos]
       IN  chan' =
             IF message.date = "before"
             THEN [chan EXCEPT !.tasks[c].pc = "returned",
                               !.tasks[c].result = t.collected_messages]
             ELSE IF message.date = "in" /\ message.text
             THEN [chan EXCEPT !.tasks[c].pos = t.pos + 1,
                               !.tasks[c].collected_messages = Append(t.collected_messages, message)]
             ELSE [chan EXCEPT !.tasks[c].pos = t.pos + 1]
    /\ UNCHANGED chanRest

\* the iteration is exhausted: return collected_messages
ChReturn(c) ==
    /\ chan.pc = "gather"
    /\ chan.tasks[c].pc = "iter"
    /\ chan.tasks[c].pos > Len(chan.tasks[c].feed)
    /\ chan' = [chan EXCEPT !.tasks[c].pc = "returned",
                            !.tasks[c].result = chan.tasks[c].collected_messages]
    /\ UNCHANGED chanRest

\* the channel is invalid, private or not available, or any other exception is
\* raised while its messages are read
ChError(c) ==
    /\ chan.pc = "gather"
    /\ chan.tasks[c].pc = "iter"
    /\ chan' = [chan EXCEPT !.tasks[c].pc = "returned", !.tasks[c].failed = TRUE,
                            !.tasks[c].result = OnChannelError(chan.tasks[c].collected_messages)]
    /\ UNCHANGED chanRest

\* results = await asyncio.gather(*tasks); all_messages
ChanGather ==
    /\ chan.pc = "gather"
    /\ \A c \in Channels : chan.tasks[c].pc = "returned"
    /\ chan' = [chan EXCEPT !.pc = "done",
                            !.all_messages = Flatten([c \in Channels |-> chan.tasks[c].result],
                                                     NumChannels)]
    /\ UNCHANGED chanRest

ChanNext ==
    \/ ChanStart
    \/ ChanLoadFail
    \/ ChanGather
    \/ \E c \in Channels :
         \/ ChJoin(c)
         \/ ChMessage(c)
         \/ ChReturn(c)
         \/ ChError(c)

ChanSpec == Init /\ [][ChanNext]_vars

----------------------------------------------------------------------------
(* generate_report_data of services/report_generator.py from the model's    *)
(* response on: sanitize_json_response, json.loads, and the fallback        *)
(* extract_items_from_truncated_json.  A text is a sequence of characters;  *)
(* the words of the keys and values are written as one character each.      *)

\* the variables a report generation leaves alone
llmRest == <<coreVars, ml, boot, fcl, chan, bot, art, dlg>>

\* the items a response holds at most
MaxItems == 2

Q == "\""

BS == "\\"

\* {"a":"x"}
Plain == <<"{", Q, "a", Q, ":", Q, "x", Q, "}">>

\* {"a":"}]\"{"}: a string with braces, a bracket and an escaped quote
Tricky == <<"{", Q, "a", Q, ":", Q, "}", "]", BS, Q, "{", Q, "}">>

\* {"b":["x"]}
Inner == <<"{", Q, "b", Q, ":", "[", Q, "x", Q, "]", "}">>

\* {"a":{"b":["x"]}}
Nested == <<"{", Q, "a", Q, ":">> \o Inner \o <<"}">>

\* {"a":x}: braces balanced, not JSON
Broken == <<"{", Q, "a", Q, ":", "x", "}">>

ItemTexts == {Plain, Tricky, Nested, Broken}

\* the object texts json.loads accepts
ValidObjects == {Plain, Tricky, Nested, Inner}

\* {"t":"x","items":[
Header == <<"{", Q, "t", Q, ":", Q, "x", Q, ",", Q, "items", Q, ":", "[">>

\* the items separated by commas
RECURSIVE Joined(_)
Joined(items) ==
    IF items = <<>> THEN <<>>
    ELSE IF Len(items) = 1 THEN items[1]
    ELSE Joined(SubSeq(items, 1, Len(items) - 1)) \o <<",">> \o items[Len(items)]

\* the whole response the model meant to give
Document(items) == Header \o Joined(items) \o <<"]", "}">>

ItemSeqs == UNION {[1 .. n -> ItemTexts] : n \in 0 .. MaxItems}

\* json.loads(clean_response) succeeds
Parses(text) ==
    \E items \in ItemSeqs :
        /\ \A j \in DOMAIN items : items[j] \in ValidObjects
        /\ text = Document(items)

\* str.find(sub, start) with positions counted from 1; 0 when not found
Find(text, sub, start) ==
    LET hits == {i \in start .. Len(text) - Len(sub) + 1 : SubSeq(text, i, i + Len(sub) - 1) = sub}
    IN  IF hits = {} THEN 0 ELSE CHOOSE i \in hits : \A j \in hits : i <= j

\* str.rfind(sub) for one character
RFind(text, ch) ==
    LET hits == {i \in 1 .. Len(text) : text[i] = ch}
    IN  IF hits = {} THEN 0 ELSE CHOOSE i \in hits : \A j \in hits : i >= j

\* sanitize_json_response: the text from the first { to the last }
sanitize_json_response(raw) ==
    LET first_brace == Find(raw, <<"{">>, 1)
        last_brace == RFind(raw, "}")
    IN  IF first_brace # 0 /\ last_brace > first_brace
        THEN SubSeq(raw, first_brace, last_brace)
        ELSE raw

\* variant: a quote is not taken to open a string
OpensStringNever(ch) == FALSE

\* if ch == '"': in_string = True
OpensString(ch) == ch = Q

\* the while loop of extract_items_from_truncated_json from position i on;
\* current_start = 0 stands for None
RECURSIVE Scan(_, _, _, _, _, _, _)
Scan(text, i, in_string, escape, brace_depth, current_start, results) ==
    IF i > Len(text) THEN results
    ELSE LET ch == text[i]
         IN  IF in_string
             THEN IF escape
                  THEN Scan(text, i + 1, TRUE, FALSE, brace_depth, current_start, results)
                  ELSE IF ch = BS
                  THEN Scan(text, i + 1, TRUE, TRUE, brace_depth, current_start, results)
                  ELSE IF ch = Q
                  THEN Scan(text, i + 1, FALSE, FALSE, brace_depth, current_start, results)
                  ELSE Scan(text, i + 1, TRUE, FALSE, brace_depth, current_start, results)
             ELSE IF OpensString(ch)
             THEN Scan(text, i + 1, TRUE, escape, brace_depth, current_start, results)
             ELSE IF ch = "{"
             THEN Scan(text, i + 1, FALSE, escape, brace_depth + 1,
                       IF brace_depth = 0 THEN i ELSE current_start, results)
             ELSE IF ch = "}"
             THEN IF brace_depth > 0
                  THEN IF brace_depth = 1 /\ current_start # 0
                       THEN LET obj_text == SubSeq(text, current_start, i)
                            IN  Scan(text, i + 1, FALSE, escape, 0, 0,
                                     IF obj_text \in ValidObjects
                                     THEN Append(results, obj_text) ELSE results)
                       ELSE Scan(text, i + 1, FALSE, escape, brace_depth - 1,
                                 current_start, results)
                  ELSE Scan(text, i + 1, FALSE, escape, brace_depth, current_start, results)
             ELSE IF ch = "]" /\ brace_depth = 0
             THEN results
             ELSE Scan(text, i + 1, FALSE, escape, brace_depth, current_start, results)

\* extract_items_from_truncated_json(text)
extract_items_from_truncated_json(text) ==
    LET key_pos == Find(text, <<Q, "items", Q>>, 1)
        bracket_pos == IF key_pos = 0 THEN 0 ELSE Find(text, <<"[">>, key_pos)
    IN  IF key_pos = 0 \/ bracket_pos = 0 THEN <<>>
        ELSE Scan(text, bracket_pos + 1, FALSE, FALSE, 0, 0, <<>>)

\* generate_report_data from raw_response on
generate_report_data(raw_response) ==
    LET clean_response == sanitize_json_response(raw_response)
    IN  IF Parses(clean_response)
        THEN [kind |-> "parsed", items |-> <<>>]
        ELSE LET parsed_items == extract_items_from_truncated_json(clean_response)
             IN  IF parsed_items = <<>>
                 THEN [kind |-> "ValueError", items |-> <<>>]
                 ELSE [kind |-> "salvaged", items |-> parsed_items]

\* raw_response = await provider.generate(...): the response the model meant,
\* whole or cut after its first `cut` characters
LlmRespond ==
    /\ llm.pc = "idle"
    /\ \E items \in ItemSeqs :
         \E cut \in 0 .. Len(Document(items)) :
            llm' = [llm EXCEPT !.pc = "responded", !.items = items, !.cut = cut,
                               !.raw_response = SubSeq(Document(items), 1, cut)]
    /\ UNCHANGED llmRest

\* the rest of generate_report_data
LlmParse ==
    /\ llm.pc = "responded"
    /\ llm' = [llm EXCEPT !.pc = "returned", !.outcome = generate_report_data(llm.raw_response)]
    /\ UNCHANGED llmRest

LlmNext ==
    \/ LlmRespond
    \/ LlmParse

LlmSpec == Init /\ [][LlmNext]_vars

----------------------------------------------------------------------------
(* The bot: model_callback, start_report_generation and the TaskManager *)

botRest == <<coreVars, ml, boot, fcl, chan, llm, art, dlg>>

\* the number of model_ callbacks a user sends, and the span of the clock,
\* which counts in units of RATE_LIMIT_SECONDS
MaxRequests == 2
MaxTicks == 2

\* rate_limited(user_id), and the time it records when it answers False
rate_limited(u) == bot.clock - bot._last_action_at[u] < 1

\* the requests of user u, numbered in the order of their callbacks
RequestsOf(u) == DOMAIN bot.sg[u]

\* task.done() of the process_report_task created by request k of user u
Done(u, k) == bot.sg[u][k] \in {"done", "cleaned"}

\* TaskManager.can_start_task: the answer
can_start_task(u) ==
    LET existing_task == bot._user_tasks[u]
    IN  existing_task = 0 \/ Done(u, existing_task)

\* a finished task whose done callback has not run yet: the callback is queued
\* with call_soon when the task finishes
Pending == \E u \in Users : \E k \in RequestsOf(u) : bot.sg[u][k] = "done"

\* The done callback runs in the same pass of the event loop as the step that
\* finished the task: before it, a coroutine can take the one step for which it
\* was already queued, and no step that waits for a later network answer.
MayStep(u, k) == ~Pending \/ <<u, k>> \notin bot.stepped

\* the coroutines that took their queued step, after request k of u takes one
Stepped(u, k) == IF Pending THEN bot.stepped \cup {<<u, k>>} ELSE {}

\* time passes while callbacks and network calls are pending
BotTick ==
    /\ bot.clock < MaxTicks
    /\ bot' = [bot EXCEPT !.clock = @ + 1]
    /\ UNCHANGED botRest

\* the user walks the menu up to the model keyboard: period_callback or
\* days_input_handler store the period and set ReportStates.choosing_model
BotSelect(u) ==
    /\ bot.fsm[u] = "none"
    /\ ~rate_limited(u)
    /\ bot' = [bot EXCEPT !._last_action_at[u] = bot.clock,
                          !.fsm[u] = "choosing_model"]
    /\ UNCHANGED botRest

\* model_callback up to its await of callback.answer(): a press of a model
\* button while the state is choosing_model
McClick(u) ==
    /\ bot.fsm[u] = "choosing_model"
    /\ MayStep(u, Len(bot.sg[u]) + 1)
    /\ Len(bot.sg[u]) < MaxRequests
    /\ IF rate_limited(u)
       THEN bot' = [bot EXCEPT !.stepped = Stepped(u, Len(bot.sg[u]) + 1),
                               !.sg[u] = Append(@, "limited")]
       ELSE bot' = [bot EXCEPT !.stepped = Stepped(u, Len(bot.sg[u]) + 1),
                               !._last_action_at[u] = bot.clock,
                               !.sg[u] = Append(@, "answer")]
    /\ UNCHANGED botRest

\* callback.answer() returned: asyncio.create_task(start_report_generation(...))
McSpawn(u, k) ==
    /\ k \in RequestsOf(u)
    /\ MayStep(u, k)
    /\ bot.sg[u][k] = "answer"
    /\ bot' = [bot EXCEPT !.stepped = Stepped(u, k), !.sg[u][k] = "check"]
    /\ UNCHANGED botRest

\* start_report_generation from its first line to its first network call:
\* can_start_task, state.get_data() and the period test
SgCheck(u, k) ==
    /\ k \in RequestsOf(u)
    /\ MayStep(u, k)
    /\ bot.sg[u][k] = "check"
    /\ IF ~can_start_task(u)
       THEN bot' = [bot EXCEPT !.stepped = Stepped(u, k), !.sg[u][k] = "rejected"]
       ELSE bot' = [bot EXCEPT !.stepped = Stepped(u, k), !._user_tasks[u] = 0,
                               !.sg[u][k] = IF bot.fsm[u] = "choosing_model"
                                            THEN "delete" ELSE "nodata"]
    /\ UNCHANGED botRest

\* await bot.delete_message(...) returned or raised
SgDeleted(u, k) ==
    /\ k \in RequestsOf(u)
    /\ MayStep(u, k)
    /\ bot.sg[u][k] = "delete"
    /\ bot' = [bot EXCEPT !.stepped = Stepped(u, k), !.sg[u][k] = "send"]
    /\ UNCHANGED botRest

\* await bot.send_message(...) returned: create_task(process_report_task(...)),
\* task_manager.add_task and state.clear()
SgRegister(u, k) ==
    /\ k \in RequestsOf(u)
    /\ MayStep(u, k)
    /\ bot.sg[u][k] = "send"
    /\ bot' = [bot EXCEPT !.stepped = Stepped(u, k), !.sg[u][k] = "running",
                          !._user_tasks[u] = k,
                          !.fsm[u] = "none"]
    /\ UNCHANGED botRest

\* process_report_task returns
TaskFinish(u, k) ==
    /\ k \in RequestsOf(u)
    /\ bot.sg[u][k] = "running"
    /\ bot' = [bot EXCEPT !.sg[u][k] = "done"]
    /\ UNCHANGED botRest

\* the done callback of the task: cleanup(t) pops the entry of the user
TaskCleanup(u, k) ==
    /\ k \in RequestsOf(u)
    /\ bot.sg[u][k] = "done"
    /\ bot' = [bot EXCEPT !.sg[u][k] = "cleaned",
                          !._user_tasks[u] = 0,
                          !.stepped = IF \E v \in Users : \E j \in RequestsOf(v) :
                                             <<v, j>> # <<u, k>> /\ bot.sg[v][j] = "done"
                                       THEN @ ELSE {}]
    /\ UNCHANGED botRest

BotNext ==
    \/ BotTick
    \/ \E u \in Users : BotSelect(u)
    \/ \E u \in Users : McClick(u)
    \/ \E u \in Users, k \in 1 .. MaxRequests : McSpawn(u, k)
    \/ \E u \in Users, k \in 1 .. MaxRequests : SgCheck(u, k)
    \/ \E u \in Users, k \in 1 .. MaxRequests : SgDeleted(u, k)
    \/ \E u \in Users, k \in 1 .. MaxRequests : SgRegister(u, k)
    \/ \E u \in Users, k \in 1 .. MaxRequests : TaskFinish(u, k)
    \/ \E u \in Users, k \in 1 .. MaxRequests : TaskCleanup(u, k)

BotSpec == Init /\ [][BotNext]_vars

----------------------------------------------------------------------------
(* One cache key of a fixed historical window: what the artifact holds and  *)
(* what each request of POST /api/reports/parse-and-generate answers        *)

artRest == <<coreVars, ml, boot, fcl, chan, llm, bot, dlg>>

\* how many times the artifact is deleted
MaxDeletes == 1

\* what json.dumps(messages) is for no message and for some messages
Contents == {"[]", "messages"}

\* variant: an empty result is answered without being saved
SavesUnlessEmpty(messages) == messages # "[]"

\* the result of the scrape is written to cache_file before `if not messages`
SavesResult(messages) == TRUE

\* the cache check for a period other than "today"
ArExists == art.file # "absent"

\* raise HTTPException(...) or an exception turned into status 500: the request
\* ends, leaving the gate if it was inside
ArAnswer(r, status) ==
    art' = [art EXCEPT !.rq[r].pc = "done", !.rq[r].answer = status,
                       !.gate = IF art.rq[r].pc \in {"load_gated", "scrape", "write", "writing"}
                                THEN FALSE ELSE @]

\* what follows messages: 404 for none, the report generation otherwise
ArAfterMessages(r, messages) ==
    art' = [art EXCEPT !.rq[r].messages = messages,
                       !.rq[r].pc = IF messages = "[]" THEN "done" ELSE "generate",
                       !.rq[r].answer = IF messages = "[]" THEN 404 ELSE 0,
                       !.gate = IF art.rq[r].pc \in {"load_gated", "writing"} THEN FALSE ELSE @]

\* a request arrives
ArArrive(r) ==
    /\ art.rq[r].pc = "idle"
    /\ \A q \in Requests : q < r => art.rq[q].pc # "idle"
    /\ art' = [art EXCEPT !.rq[r].pc = "start"]
    /\ UNCHANGED artRest

\* the first cache check
ArCheck(r) ==
    /\ art.rq[r].pc = "start"
    /\ art' = [art EXCEPT !.rq[r].pc = IF ArExists THEN "load" ELSE "wait",
                          !.rq[r].saw = art.file,
                          !.rq[r].gen = art.deletes]
    /\ UNCHANGED artRest

\* the artifact is read and decoded, outside the gate or inside it: a file that
\* is gone or not written to its end raises
ArLoad(r) ==
    /\ art.rq[r].pc \in {"load", "load_gated"}
    /\ IF art.file \in Contents
       THEN ArAfterMessages(r, art.file)
       ELSE ArAnswer(r, 500)
    /\ UNCHANGED artRest

\* `async with PARSER_LOCK` is entered and the cache checked again
ArAcquire(r) ==
    /\ art.rq[r].pc = "wait"
    /\ ~art.gate
    /\ art' = [art EXCEPT !.gate = TRUE,
                          !.rq[r].pc = IF ArExists THEN "load_gated" ELSE "scrape"]
    /\ UNCHANGED artRest

\* parse_telegram_channels returns: no message (also when every channel
\* failed) or some
ArScrape(r) ==
    /\ art.rq[r].pc = "scrape"
    /\ \E messages \in Contents :
         IF SavesResult(messages)
         THEN art' = [art EXCEPT !.rq[r].pc = "write", !.rq[r].messages = messages,
                                 !.rq[r].scraped = TRUE]
         ELSE art' = [art EXCEPT !.rq[r].pc = "done", !.rq[r].messages = messages,
                                 !.rq[r].scraped = TRUE, !.rq[r].answer = 404,
                                 !.gate = FALSE]
    /\ UNCHANGED artRest

\* parse_telegram_channels raises
ArScrapeFail(r) ==
    /\ art.rq[r].pc = "scrape"
    /\ ArAnswer(r, 500)
    /\ UNCHANGED artRest

\* aiofiles.open(cache_file, 'w')
ArOpen(r) ==
    /\ art.rq[r].pc = "write"
    /\ art' = [art EXCEPT !.file = "open", !.rq[r].pc = "writing"]
    /\ UNCHANGED artRest

\* await f.write(json_content) and the file is closed
ArWrite(r) ==
    /\ art.rq[r].pc = "writing"
    /\ art' = [art EXCEPT !.file = art.rq[r].messages,
                          !.rq[r].pc = IF art.rq[r].messages = "[]" THEN "done" ELSE "generate",
                          !.rq[r].answer = IF art.rq[r].messages = "[]" THEN 404 ELSE 0,
                          !.gate = FALSE]
    /\ UNCHANGED artRest

\* opening or writing the artifact raises
ArWriteFail(r) ==
    /\ art.rq[r].pc \in {"write", "writing"}
    /\ ArAnswer(r, 500)
    /\ UNCHANGED artRest

\* generate_report_data and generate_docx return the report or raise
ArGenerate(r) ==
    /\ art.rq[r].pc = "generate"
    /\ \E status \in {200, 500} : ArAnswer(r, status)
    /\ UNCHANGED artRest

\* the artifact, written to its end, is deleted (the file cleaner, an operator)
ArDelete ==
    /\ art.file \in Contents
    /\ art.deletes < MaxDeletes
    /\ art' = [art EXCEPT !.file = "absent", !.deletes = @ + 1]
    /\ UNCHANGED artRest

ArtifactNext ==
    \/ ArDelete
    \/ \E r \in Requests : ArArrive(r)
    \/ \E r \in Requests : ArCheck(r)
    \/ \E r \in Requests : ArLoad(r)
    \/ \E r \in Requests : ArAcquire(r)
    \/ \E r \in Requests : ArScrape(r)
    \/ \E r \in Requests : ArScrapeFail(r)
    \/ \E r \in Requests : ArOpen(r)
    \/ \E r \in Requests : ArWrite(r)
    \/ \E r \in Requests : ArWriteFail(r)
    \/ \E r \in Requests : ArGenerate(r)

ArtifactSpec == Init /\ [][ArtifactNext]_vars

----------------------------------------------------------------------------
(* One user's dialogue with the bot, from the report type to the request    *)
(* sent to the report API, one update at a time                             *)

dlgRest == <<coreVars, ml, boot, fcl, chan, llm, bot, art>>

\* the report types and the numbers of days the user tries
ReportTypes == {"news", "events"}
EnteredDays == {1, 3, 7}

\* api_params of start_report_generation: period if the data holds one, else
\* days if the data holds them, else no request
api_params(data) ==
    IF data.period # "none"
    THEN [report_type |-> data.report_type, period |-> data.period, days |-> 0]
    ELSE IF data.days # 0
         THEN [report_type |-> data.report_type, period |-> "none", days |-> data.days]
         ELSE NoParams

\* report_type_callback
DlgType(t) ==
    /\ dlg.state = "choosing_report_type"
    /\ dlg' = [dlg EXCEPT !.data.report_type = t, !.state = "choosing_period"]
    /\ UNCHANGED dlgRest

\* period_callback for period_today and period_yesterday
DlgPeriod(p) ==
    /\ dlg.state = "choosing_period"
    /\ dlg' = [dlg EXCEPT !.data.period = p, !.state = "choosing_model",
                          !.chosen = [period |-> p, days |-> 0]]
    /\ UNCHANGED dlgRest

\* period_callback for period_manual
DlgManual ==
    /\ dlg.state = "choosing_period"
    /\ dlg' = [dlg EXCEPT !.state = "entering_days"]
    /\ UNCHANGED dlgRest

\* days_input_handler with a number from 1 to 365
DlgDays(n) ==
    /\ dlg.state = "entering_days"
    /\ dlg' = [dlg EXCEPT !.data.days = n, !.state = "choosing_model",
                          !.chosen = [period |-> "none", days |-> n]]
    /\ UNCHANGED dlgRest

\* nav_back_to_period_callback, the button "back" of the model keyboard
DlgBackToPeriod ==
    /\ dlg.state = "choosing_model"
    /\ dlg' = [dlg EXCEPT !.state = "choosing_period"]
    /\ UNCHANGED dlgRest

\* nav_back_callback, the button "back" of the period keyboard
DlgBack ==
    /\ dlg.state = "choosing_period"
    /\ dlg' = [dlg EXCEPT !.state = "choosing_report_type"]
    /\ UNCHANGED dlgRest

\* nav_reset_callback: state.clear(), and the menu is walked again up to the
\* report types
DlgReset ==
    /\ dlg.state \in {"choosing_period", "entering_days", "choosing_model"}
    /\ dlg' = NoDialogue
    /\ UNCHANGED dlgRest

\* model_callback and start_report_generation: the request is built from the
\* data and the state cleared
DlgModel ==
    /\ dlg.state = "choosing_model"
    /\ dlg' = [dlg EXCEPT !.api_params = api_params(dlg.data), !.state = "sent"]
    /\ UNCHANGED dlgRest

DialogueNext ==
    \/ \E t \in ReportTypes : DlgType(t)
    \/ \E p \in {"today", "yesterday"} : DlgPeriod(p)
    \/ DlgManual
    \/ \E n \in EnteredDays : DlgDays(n)
    \/ DlgBackToPeriod
    \/ DlgBack
    \/ DlgReset
    \/ DlgModel

DialogueSpec == Init /\ [][DialogueNext]_vars

----------------------------------------------------------------------------
(* Properties of the registry under Spec *)

Protected == {"processing", "pending"}

Finished == {"completed", "error"}

Restrict(d, keys) == [k \in keys |-> d[k]]

\* The step is a registry call named op: a call writes hist and leaves the clock
\* alone, a clock advance leaves hist alone.
CallStep(op) == hist'.op = op /\ now' = now

\* the step is a registry call named op on task_id id
CallStepOn(op, id) == CallStep(op) /\ hist'.id = id

\* C2: an entry put with status processing or pending survives every clock
\* advance, every safe_get_task and every cleanup_expired_tasks, unchanged; a step
\* that deletes it is safe_set_task(id, None, _) or safe_remove_task(id).
C2_ProtectedNeverReclaimed ==
    [][\A id \in TaskIds :
          (id \in DOMAIN task_memory /\ putStatus[id] \in Protected) =>
            /\ (now' # now \/ CallStep("get") \/ CallStep("cleanup")) =>
                  (id \in DOMAIN task_memory' /\ task_memory'[id] = task_memory[id])
            /\ id \notin DOMAIN task_memory' =>
                  (CallStepOn("remove", id) \/ CallStepOn("set_none", id))]_vars

\* a protected entry whose payload says "completed" is still stored after a
\* reclaim pass or a read at the last instant of the clock
C2_Witness ==
    /\ hist.op \in {"get", "cleanup"}
    /\ now = 3601
    /\ \E id \in DOMAIN task_memory :
         putStatus[id] \in Protected /\ task_memory[id] = DictWith("completed")

\* C3: for an entry put with status completed or error, once now > expiry the
\* next safe_get_task(id) returns None and removes the entry and its expiry record.
C3_LazyEvictionOnGet ==
    [][\A id \in TaskIds :
          (/\ CallStepOn("get", id)
           /\ putStatus[id] \in Finished
           /\ id \in DOMAIN memory_ttl
           /\ now > memory_ttl[id])
          => (/\ hist'.ret = None
              /\ id \notin DOMAIN task_memory'
              /\ id \notin DOMAIN memory_ttl')]_vars

\* C5: safe_set_task(id, None, status) and safe_remove_task(id) leave neither an
\* entry nor an expiry record for id, and a safe_get_task(id) that follows
\* returns None.
C5_NullPutRemoves ==
    [][\A id \in TaskIds :
          /\ (CallStepOn("remove", id) \/ CallStepOn("set_none", id)) =>
                (id \notin DOMAIN task_memory' /\ id \notin DOMAIN memory_ttl')
          /\ (hist.op \in {"set_none", "remove"} /\ hist.id = id /\ CallStepOn("get", id)) =>
                hist'.ret = None]_vars

\* a removal has just deleted an entry that had an expiry record
C5_Witness ==
    /\ hist.op \in {"set_none", "remove"}
    /\ hist.had
    /\ hist.hadTtl
    /\ hist.id \notin DOMAIN task_memory

\* C6: a put with a payload sets the expiry to now + 300 for completed and
\* error, to now + 3600 for a status the table does not list, and leaves no
\* expiry record for processing and pending, whatever record was there before.
C6_PutRecomputesExpiry ==
    [][\A id \in TaskIds, status \in Statuses :
          (CallStepOn("set", id) /\ putStatus'[id] = status) =>
            /\ status \in Finished =>
                  (id \in DOMAIN memory_ttl' /\ memory_ttl'[id] = now + 300)
            /\ status \in Protected => id \notin DOMAIN memory_ttl'
            /\ status \notin Finished \cup Protected =>
                  (id \in DOMAIN memory_ttl' /\ memory_ttl'[id] = now + 3600)]_vars

\* a put with a protected status has just deleted the expiry record of an
\* earlier put of the same id
C6_Witness ==
    /\ hist.op = "set"
    /\ hist.hadTtl
    /\ hist.id \notin DOMAIN memory_ttl
    /\ putStatus[hist.id] \in Protected

C8_CleanupIdempotent ==
    [][(/\ hist.op = "cleanup"
        /\ CallStep("cleanup")
        /\ \A id \in DOMAIN memory_ttl :
              ~(hist.t <= memory_ttl[id] /\ memory_ttl[id] < now))
       => (/\ hist'.n = 0
           /\ task_memory' = task_memory
           /\ memory_ttl' = memory_ttl)]_vars

\* the second of two passes in a row has run, at a later instant than an expiry
\* record that is still there
C8_Witness ==
    /\ hist.op = "cleanup"
    /\ hist.again
    /\ hist.n = 0
    /\ \E id \in DOMAIN memory_ttl : now > memory_ttl[id]

\* C4: put as processing, a reclaim pass keeps the entry; put again as
\* completed and the clock advanced by more than 300 s, the next reclaim pass
\* evicts the entry (and returns 1 when it is the only entry) and the
\* safe_get_task that follows returns None.
C4_Lifecycle ==
    /\ lc.pc \notin {"start", "put1"} => lc.kept1
    /\ lc.pc \in {"reclaimed2", "done"} =>
          (lc.evicted2 /\ lc.n2 >= 1 /\ (lc.only => lc.n2 = 1))
    /\ lc.pc = "done" => lc.ret = None

\* C9: an entry put with status completed or error does not stay in the
\* registry for ever: again and again it is absent or has been put anew with
\* another status.
C9_FinishedEventuallyAbsent ==
    \A id \in TaskIds :
        []<>(~(id \in DOMAIN task_memory /\ putStatus[id] \in Finished))

----------------------------------------------------------------------------
(* Properties of the concurrent coroutines under ConcSpec *)

\* one whole call of coroutine c on the registry st, as a sequential caller
\* would see it; st.rets collects what the calls returned
ApplyCall(st, p, c) ==
    CASE c.op = "set" ->
           LET r == SetTask(st.tm, st.ttl, c.t, c.id, c.data, c.status)
           IN  [st EXCEPT !.tm = r.tm, !.ttl = r.ttl]
      [] c.op = "get" ->
           LET r == GetTask(st.tm, st.ttl, c.t, c.id)
           IN  [tm |-> r.tm, ttl |-> r.ttl, rets |-> [st.rets EXCEPT ![p] = r.ret]]
      [] OTHER ->
           LET r == CleanupExpired(st.tm, st.ttl, c.t)
           IN  [tm |-> r.tm, ttl |-> r.ttl, rets |-> [st.rets EXCEPT ![p] = r.ret]]

RECURSIVE Serial(_, _)
\* the calls of the coroutines of seq, one after the other, from the registry st
Serial(seq, st) ==
    IF seq = <<>>
    THEN st
    ELSE Serial(Tail(seq), ApplyCall(st, Head(seq), co[Head(seq)]))

\* no coroutine is inside its `async with memory_lock` block
AllQuiet == \A p \in Procs : co[p].pc \in {"idle", "wait", "done"}

\* what coroutine p returned: the payload of a get, the count of a reclaim pass
Returned(p) == IF co[p].op = "cleanup" THEN co[p].n ELSE co[p].ret

\* the entry and the expiry record of id are those one put (data, status at clock t) leaves
FromPut(id, data, status, t) ==
    /\ Lookup(task_memory, id) = data
    /\ IF TtlSeconds(status) > 0
       THEN id \in DOMAIN memory_ttl /\ memory_ttl[id] = t + TtlSeconds(status)
       ELSE id \notin DOMAIN memory_ttl

\* C10: whenever no coroutine is inside the lock, the two mappings and the
\* values returned so far are those of the calls run one after the other in
\* the order they acquired memory_lock; and a stored entry that concurrent
\* puts targeted has its payload and its expiry record from one and the same
\* put.
C10_Serializable ==
    AllQuiet =>
        LET s == Serial(order, [tm |-> base.tm, ttl |-> base.ttl,
                                rets |-> [p \in Procs |-> None]])
            PutsOn(id) == {p \in Procs : co[p].pc = "done" /\ co[p].op = "set"
                                          /\ co[p].id = id /\ co[p].data # None}
        IN  /\ task_memory = s.tm
            /\ memory_ttl = s.ttl
            /\ \A p \in Procs :
                 (co[p].pc = "done" /\ co[p].op \in {"get", "cleanup"}) => Returned(p) = s.rets[p]
            /\ \A id \in DOMAIN task_memory :
                 (PutsOn(id) # {} /\ id \notin DOMAIN base.tm) =>
                     \E p \in PutsOn(id) : FromPut(id, co[p].data, co[p].status, co[p].t)

\* two coroutines have put different payloads with different statuses on the
\* same id, one of them arrived while the lock was held, and both have returned
C10_Witness ==
    /\ AllQuiet
    /\ \E p, q \in Procs :
         /\ p # q
         /\ co[p].pc = "done" /\ co[q].pc = "done"
         /\ co[p].op = "set" /\ co[q].op = "set"
         /\ co[p].id = co[q].id
         /\ co[p].data # None /\ co[q].data # None
         /\ co[p].status # co[q].status
         /\ co[p].blocked \/ co[q].blocked
         /\ co[p].id \in DOMAIN task_memory

----------------------------------------------------------------------------
(* Properties of the scraping endpoints under ScrapeSpec *)

\* the requests that are between opening and closing their Telegram session
Scraping == {r \in Requests : req[r].pc = "session"}

\* C1: at every moment at most one scrape, whichever endpoint issued it, is
\* between opening and closing its Telegram session.
C1_AtMostOneScrape == Cardinality(Scraping) <= 1

----------------------------------------------------------------------------
(* Properties of the registry calls under ReclaimSpec *)

\* the effects a call may have while it holds memory_lock: accesses to the two
\* mappings, and reading the collector's counters
UnderLock == {"mapping", "gc_count"}

\* the positions of a call outside its `async with memory_lock` block
OutsideLock == {"import", "idle", "measure", "acquire", "collect", "returned"}

\* C11: while memory_lock is held nothing happens but accesses to the two
\* mappings (no process-metrics query, no collection, no heap trim), in
\* safe_set_task, safe_get_task, cleanup_expired_tasks and get_memory_stats;
\* and the lock is free again whenever the call is outside its locked block.
C11_LockOnlyAroundMappings ==
    /\ \A i \in DOMAIN rc.log : rc.log[i].locked => rc.log[i].e \in UnderLock
    /\ rc.pc \in OutsideLock => ~memory_lock

\* the effects of kind e in the log of the running call
Logged(e) == {i \in DOMAIN rc.log : rc.log[i].e = e}

\* C19: in a call of cleanup_expired_tasks every collection and the heap trim
\* happen after memory_lock is released; the heap trim is requested once in
\* every call; the collections of generations 1 and 2 and the final full
\* collection are run exactly when at least one entry was evicted, otherwise
\* only generation 0 is collected.
C19_CollectAfterRelease ==
    (rc.op = "cleanup" /\ rc.pc = "returned") =>
        /\ \A i \in DOMAIN rc.log :
             rc.log[i].e \in {"gc0", "gc1", "gc2", "gc_full", "trim"} => ~rc.log[i].locked
        /\ \A i \in Logged("mapping"), j \in DOMAIN rc.log :
             rc.log[j].e \in {"gc0", "gc1", "gc2", "gc_full", "trim"} => i < j
        /\ Cardinality(Logged("trim")) = 1
        /\ Cardinality(Logged("gc0")) = 1
        /\ \A e \in {"gc1", "gc2", "gc_full"} :
             Cardinality(Logged(e)) = IF rc.popped >= 1 THEN 1 ELSE 0

\* a pass that evicted an entry has returned
C19_Witness ==
    /\ rc.op = "cleanup"
    /\ rc.pc = "returned"
    /\ rc.popped >= 1
    /\ Logged("gc_full") # {}

\* C20 as stated: every payload cleanup_expired_tasks evicts leaves the
\* registry inside the locked block with none of its large fields holding a
\* value other than None.
C20_NoNonNullField ==
    \A e \in rc.evicted :
        /\ e.locked
        /\ \A k \in LargeFields : e.fs[k] \in {"absent", "null"}

\* C20, amended: every payload cleanup_expired_tasks evicts leaves the
\* registry inside the locked block with none of its large fields holding a
\* non-empty value: the non-empty values have been set to None, the empty
\* ones (empty string, empty list) are left as they are.
C20_NoLargeField ==
    \A e \in rc.evicted :
        /\ e.locked
        /\ \A k \in LargeFields : e.fs[k] # "large"

\* a pass has evicted a payload that was put with large fields, some of them
\* non-empty and some empty
C20_Witness ==
    /\ rc.op = "cleanup"
    /\ rc.pc = "returned"
    /\ \E e \in rc.evicted : \E k, l \in LargeFields : e.fs[k] = "empty" /\ e.fs[l] = "null"

----------------------------------------------------------------------------
(* Properties of the parse-and-generate requests under GateSpec and GateLiveSpec *)

\* the positions of a request inside `async with PARSER_LOCK`
InGate == {"load_gated", "scrape", "session", "write", "writing"}

\* C12: PARSER_LOCK is held exactly while some request is inside the gated
\* block, so every exit of the block, by return or by an exception of the
\* scrape, of the cache read or of the cache write, releases it; and every
\* request that waits for the gate eventually enters it.
C12_GateReleased ==
    /\ [](PARSER_LOCK <=> \E r \in Requests : req[r].pc \in InGate)
    /\ [](\A r \in Requests : req[r].gate <=> req[r].pc \in InGate)
    /\ \A r \in Requests : (req[r].pc = "wait") ~> (req[r].pc \in InGate)

\* a request that had to wait holds the gate after the holder before it has
\* failed inside the gated block
C12_Witness ==
    \E r, q \in Requests :
        /\ req[r].pc = "failed" /\ ~req[r].hit1
        /\ req[q].busy /\ req[q].gate

\* the requests that run or have run a scrape for artifact f
Scraped(f) ==
    {r \in Requests : /\ req[r].cache_file = f
                      /\ \/ req[r].pc \in {"session", "write", "writing"}
                         \/ req[r].messages \in {"empty", "some"}}

\* every request that has arrived targets artifact f, and none has failed
OnlyFor(f) ==
    \A r \in Requests : req[r].pc # "idle" => (req[r].cache_file = f /\ req[r].pc # "failed")

\* C13: a request scrapes under the gate only if the artifact is not
\* admissible after the acquisition; and when all the requests target the
\* same fixed window, no artifact existed at the start and nothing fails, at
\* most one of them scrapes, and once all have returned exactly one has
\* scraped and every other one has read the artifact.
C13_OneScrapePerWindow ==
    /\ \A r \in Requests :
         (req[r].pc \in {"scrape", "session", "write"} /\ ~IsToday(req[r].cache_file)) =>
             ~(cache[req[r].cache_file].exists /\ cache[req[r].cache_file].is_file)
    /\ \A f \in CacheFiles :
         (~IsToday(f) /\ cache[f].writer # "earlier" /\ OnlyFor(f)) =>
             /\ Cardinality(Scraped(f)) <= 1
             /\ (\A r \in Requests : req[r].pc = "done") =>
                    /\ Cardinality(Scraped(f)) = 1
                    /\ \A r \in Requests \ Scraped(f) : req[r].messages = "cached"

\* all the requests targeted one fixed window and have returned; one of them
\* had waited at the gate and then read the artifact of the one that scraped
C13_Witness ==
    \E f \in CacheFiles :
        /\ ~IsToday(f) /\ cache[f].writer # "earlier" /\ OnlyFor(f)
        /\ \A r \in Requests : req[r].pc = "done"
        /\ \E r \in Requests : req[r].busy /\ req[r].messages = "cached"

\* C14: a request whose first check admitted the artifact never waits for the
\* gate nor enters it, and its cache load can proceed whoever holds the gate.
C14_HitBypassesGate ==
    \A r \in Requests :
        req[r].hit1 =>
            /\ ~req[r].gate
            /\ ~req[r].busy
            /\ req[r].pc \in {"load", "done", "failed"}
            /\ req[r].pc = "load" => ENABLED PgLoad(r)

\* a request is loading its admitted artifact while another request holds the
\* gate and scrapes another window
C14_Witness ==
    \E r, q \in Requests :
        /\ req[r].hit1 /\ req[r].pc = "load"
        /\ req[q].gate /\ req[q].pc = "session"
        /\ req[q].cache_file # req[r].cache_file
        /\ PARSER_LOCK

\* C17: for a fixed historical window the first check and the check under the
\* gate admit the artifact exactly when it exists as a regular file, whatever
\* its age; when it does not, the request goes on to the gate and, under the
\* gate, to the scrape.
C17_FixedWindowByExistence ==
    [][\A r \in Requests :
         (req[r].pc \in {"start", "wait"} /\ req'[r].pc # req[r].pc
             /\ req[r].ep = "parse_and_generate" /\ ~IsToday(req[r].cache_file)) =>
            LET there == cache[req[r].cache_file].exists /\ cache[req[r].cache_file].is_file
            IN  req'[r].pc = CASE req[r].pc = "start" /\ there -> "load"
                               [] req[r].pc = "start" /\ ~there -> "wait"
                               [] req[r].pc = "wait" /\ there -> "load_gated"
                               [] OTHER -> "scrape"]_vars

\* a request over a fixed window loads an artifact that is more than
\* TODAY_CACHE_MAX_AGE_SEC old
C17_Witness ==
    \E r \in Requests :
        /\ req[r].pc = "load"
        /\ ~IsToday(req[r].cache_file)
        /\ now - cache[req[r].cache_file].mtime > TODAY_CACHE_MAX_AGE_SEC

----------------------------------------------------------------------------
(* Properties of all the scraping endpoints under ScrapeSpec *)

\* the requests that have opened their artifact for writing and not closed it
Writing == {r \in Requests : req[r].pc = "writing"}

\* C15: at most one request is writing an artifact at a time, every request
\* that is writing holds the scrape gate, and every artifact written by a
\* request of any endpoint was written under the gate.
C15_WritersHoldGate ==
    /\ Cardinality(Writing) <= 1
    /\ \A r \in Writing : req[r].gate
    /\ \A f \in CacheFiles : cache[f].writer # "ungated"

\* the artifact of "today" is there and at most TODAY_CACHE_MAX_AGE_SEC old
Fresh(f, t) ==
    /\ cache[f].exists
    /\ cache[f].is_file
    /\ t - cache[f].mtime <= TODAY_CACHE_MAX_AGE_SEC

\* C16: whenever a request over the "today" window, of any endpoint that keeps
\* an artifact, decides about its cache (at the first check or under the
\* gate), it reuses the artifact exactly when the artifact exists and
\* now - mtime <= 300.
C16_TodayByAge ==
    [][\A r \in Requests :
         (req[r].pc \in {"start", "wait"} /\ req'[r].pc # req[r].pc
             /\ req[r].cache_file \in CacheFiles /\ IsToday(req[r].cache_file)) =>
            ((req'[r].pc \in {"load", "load_gated"} \/ req'[r].messages = "cached")
                <=> Fresh(req[r].cache_file, now))]_vars

\* C18: the outcome of a cache check is determined by the artifact (existence,
\* kind, modification time), the clock and the window type: two checks that read
\* the same of these decide the same, whatever the process held in memory and
\* whichever run of the process took them.
C18_DecisionFromPersistedState ==
    \A a, b \in seen : SameInputs(a, b) => a.use_cache = b.use_cache

\* an existing artifact checked before and after a restart, at the same clock
C18_Witness ==
    \E a, b \in seen :
        /\ a.run # b.run
        /\ SameInputs(a, b)
        /\ a.exists /\ a.is_file

\* C21: an exception raised by the pass or by the deep step of an iteration
\* does not end memory_cleanup_loop: the loop is back in its sleep, from which
\* the next iteration starts, and it has ended only if it was cancelled.
C21_LoopSurvivesErrors ==
    /\ ml.pc = "ended" => ml.cancelled
    /\ (ml.error # 0 /\ ml.error = ml.cycle_count /\ ~ml.cancelled) =>
           /\ ml.pc = "sleep"
           /\ ml.cycle_count < MaxCycles => ENABLED MlWake

\* the pass of the iteration after one that raised has run to its end
C21_Witness ==
    /\ ml.error # 0
    /\ ml.cycle_count = ml.error + 1
    /\ ml.pc = "pass" /\ rc.pc = "returned"

\* C22: the iterations that ran to their end and did the deep step (or raised
\* inside it) are the iterations 5, 10, ..., whatever became of their pass.
C22_DeepEveryFifth ==
    \A k \in 1 .. ml.finished : DeepCycle(k) <=> k \in ml.deeps \cup ml.tried

\* C24: once memory_cleanup_loop has been cancelled, memory_lock is not held
\* on its behalf (it is free, or inside the put of a request that will leave
\* it), every expiry record belongs to an entry, and no entry that is still
\* stored has had a large field nulled by an interrupted pass.
C24_CancelLeavesStateWhole ==
    ml.cancelled =>
        /\ memory_lock => ml.other
        /\ DOMAIN memory_ttl \subseteq DOMAIN task_memory
        /\ \A id \in DOMAIN task_memory : \A k \in LargeFields : fields[id][k] # "null"

\* the loop was cancelled while its pass waited for memory_lock, with an
\* entry carrying large fields in the registry
C24_Witness ==
    /\ ml.cancelled /\ ml.at = "lock"
    /\ \E id \in DOMAIN task_memory : fields[id]["messages"] = "large"

\* C23: a call of manual_cleanup evicts what a pass of cleanup_expired_tasks
\* evicts and returns their number, and it runs the collections of all the
\* generations whether or not it evicted anything.
C23_ManualFullCollection ==
    (rc.op = "manual_cleanup" /\ rc.pc = "returned") =>
        /\ rc.popped = Cardinality(rc.expired_tasks)
        /\ \A id \in rc.expired_tasks : id \notin DOMAIN task_memory
        /\ \A e \in {"gc0", "gc1", "gc2"} : Logged(e) # {}

\* C25: when startup has finished with ENABLE_MEMORY_CLEANUP set, the task of
\* memory_cleanup_loop has been created, whatever the bot token, the webhook
\* host and the outcome of the webhook setup.
C25_LoopStartedWheneverEnabled ==
    (boot.pc = "done" /\ boot.env.ENABLE_MEMORY_CLEANUP) => boot.memory_loop

----------------------------------------------------------------------------
(* Properties of the file cleaner under CleanerSpec *)

\* C26: is_path_safe answers true only for paths that lie in the directory
\* /data/raw_parses (not for a sibling whose name begins with raw_parses, nor
\* for /data/temp or the Telegram session), and cleanup_old_files removes only
\* files for which it answered true, all of them in that directory.
C26_OnlyInsideTarget ==
    /\ (fcl.pc = "judged" /\ fcl.safe) => InsideTarget(fcl.path)
    /\ \A f \in fcl.removed : is_path_safe(f) /\ InsideTarget(f)

\* the hour of the first CLEANUP_TIME_HOUR after the loop started
FirstTarget == calculate_until_target_time(CLEANUP_TIME_HOUR, fcl.start) + fcl.start

\* C29: without errors, the first run of cleanup_old_files is at the first
\* CLEANUP_TIME_HOUR after the start of the loop and every later run is 24
\* hours after the run before it.
C29_RunsEveryDay ==
    ~fcl.erred =>
        /\ Len(fcl.runs) >= 1 => fcl.runs[1] = FirstTarget
        /\ \A i \in 1 .. Len(fcl.runs) - 1 : fcl.runs[i + 1] = fcl.runs[i] + 24

----------------------------------------------------------------------------
(* Properties of a scrape under ChanSpec *)

\* what channel c contributes: its messages if it was read without error
Contribution(c) ==
    IF chan.tasks[c].failed THEN <<>> ELSE Collected(chan.tasks[c].feed)

\* C27: the result of parse_telegram_channels is the concatenation, in the
\* order of the channel list, of the messages of the channels that were read
\* without error; a channel that fails contributes nothing and stops no other.
C27_FailedChannelsAreSkipped ==
    chan.pc = "done" =>
        chan.all_messages = Flatten([c \in Channels |-> Contribution(c)], NumChannels)

\* a scrape has ended in which a channel failed after some of its messages were
\* collected, and the channels before and after it returned messages
C27_Witness ==
    /\ chan.pc = "done"
    /\ \E c \in Channels :
         /\ chan.tasks[c].failed /\ chan.tasks[c].collected_messages # <<>>
         /\ \E b, a \in Channels :
              /\ b < c /\ c < a
              /\ ~chan.tasks[b].failed /\ chan.tasks[b].result # <<>>
              /\ ~chan.tasks[a].failed /\ chan.tasks[a].result # <<>>

----------------------------------------------------------------------------
(* Properties of the report generation under LlmSpec *)

\* the position of the last character of item j in the response
EndOf(items, j) == Len(Header) + Len(Joined(SubSeq(items, 1, j)))

\* the items that arrived whole and are JSON objects, in their order
RECURSIVE CompleteItems(_, _, _)
CompleteItems(items, cut, n) ==
    IF n = 0 THEN <<>>
    ELSE CompleteItems(items, cut, n - 1) \o
         (IF EndOf(items, n) <= cut /\ items[n] \in ValidObjects THEN <<items[n]>> ELSE <<>>)

\* C28: when the response does not parse, generate_report_data returns the
\* items that arrived whole, in their order, and raises ValueError exactly when
\* there is none.
C28_SalvageCompleteItems ==
    (llm.pc = "returned" /\ llm.outcome.kind # "parsed") =>
        LET complete == CompleteItems(llm.items, llm.cut, Len(llm.items))
        IN  /\ llm.outcome.kind = "ValueError" <=> complete = <<>>
            /\ llm.outcome.kind = "salvaged" => llm.outcome.items = complete

\* a response cut inside its second item, whose first item holds braces and
\* quotes inside a string, has been salvaged
C28_Witness ==
    /\ llm.pc = "returned"
    /\ llm.items = <<Tricky, Nested>>
    /\ llm.cut = EndOf(llm.items, 2) - 1
    /\ llm.outcome = [kind |-> "salvaged", items |-> <<Tricky>>]

----------------------------------------------------------------------------
(* Properties of the bot under BotSpec *)

\* the requests of user u whose process_report_task is in flight
InFlight(u) == {k \in RequestsOf(u) : bot.sg[u][k] = "running"}

\* C30: a user never has two report tasks in flight, whatever the interleaving
\* of the user's callbacks with the awaits of start_report_generation.
C30_OneTaskPerUser ==
    \A u \in Users : Cardinality(InFlight(u)) <= 1

\* C37: the TaskManager holds an entry for a user exactly when the user has a
\* report task that is not done (or whose done callback is about to run): a
\* task in flight is never left without the entry, so no callback has removed
\* the registration of a task other than its own.
C37_BookkeepingMatchesTasks ==
    \A u \in Users :
        /\ InFlight(u) # {} => bot._user_tasks[u] \in InFlight(u)
        /\ bot._user_tasks[u] # 0 => bot.sg[u][bot._user_tasks[u]] \in {"running", "done"}

----------------------------------------------------------------------------
(* Further properties of the registry under Spec *)

\* C31: every id with an expiry record has an entry, so get_memory_stats
\* reports tasks_with_ttl <= active_tasks_in_ram.
C31_ExpiryOnlyForEntries ==
    /\ DOMAIN memory_ttl \subseteq DOMAIN task_memory
    /\ Cardinality(DOMAIN memory_ttl) <= Cardinality(DOMAIN task_memory)

\* after a reclaim pass one entry has an expiry record and another has none
C31_Witness ==
    /\ hist.op = "cleanup"
    /\ memory_ttl # <<>>
    /\ DOMAIN memory_ttl # DOMAIN task_memory

\* the payload itself says completed or error
OwnStatusFinished(task) == task.kind = "dict" /\ task.status \in Finished

Elsewhere(d, id) == Restrict(d, DOMAIN d \ {id})

----------------------------------------------------------------------------
(* Further properties of the scrape gate under GateSpec *)

\* request r reads its artifact outside the gate in this step
ReadsOutsideGate(r) == req[r].pc = "load" /\ req'[r].pc # "load"

\* a request inside the gate has opened artifact f for writing and not closed it
Rewriting(f) == \E q \in Requests : req[q].gate /\ req[q].pc = "writing" /\ req[q].cache_file = f

\* C34: a request on the cache-hit path outside the gate reads an artifact that
\* is written to its end, also while a gate holder is rewriting that artifact.
C34_HitReadsWholeArtifact ==
    [][\A r \in Requests :
          (ReadsOutsideGate(r) /\ Rewriting(req[r].cache_file))
          => cache[req[r].cache_file].complete]_vars

----------------------------------------------------------------------------
(* Properties of the artifact of a fixed window under ArtifactSpec *)

\* request r gets its answer in this step
Answers(r, status) == art.rq[r].answer = 0 /\ art'.rq[r].answer = status

\* C35: a scrape that returns no message is answered 404 only once the empty
\* list is the artifact; a request whose cache check then finds that artifact
\* goes to the cache-hit path, scrapes nothing, and is answered 404 as long as
\* the artifact has not been deleted.
C35_EmptyResultIsCached ==
    [][\A r \in Requests :
          /\ (Answers(r, 404) /\ art'.rq[r].scraped) => art'.file = "[]"
          /\ (art.rq[r].pc = "start" /\ art.file = "[]" /\ art'.rq[r].pc # "start")
             => art'.rq[r].pc = "load"
          /\ (/\ art.rq[r].pc = "load" /\ art.rq[r].saw = "[]"
              /\ art.rq[r].gen = art.deletes /\ art'.rq[r].pc # "load")
             => (Answers(r, 404) /\ ~art'.rq[r].scraped)]_vars

\* one request scraped nothing and was answered 404, and a later one was
\* answered 404 from the artifact without a scrape
C35_Witness ==
    \E r, q \in Requests :
        /\ r < q
        /\ art.rq[r].answer = 404 /\ art.rq[r].scraped
        /\ art.rq[q].answer = 404 /\ ~art.rq[q].scraped /\ art.rq[q].saw = "[]"
        /\ art.file = "[]"

----------------------------------------------------------------------------
(* Properties of the dialogue under DialogueSpec *)

\* C36: the request sent to the report API carries the user's last period
\* choice: the period last pressed and no days, or the days last entered and
\* no period.
C36_LastPeriodChoiceSent ==
    dlg.state = "sent" =>
        /\ dlg.api_params.period = dlg.chosen.period
        /\ dlg.api_params.days = dlg.chosen.days

====
